---- MODULE Spec2Model ----
(***************************************************************************)
(* A model of the API-aggregation layer of fastapi_service: the country,   *)
(* quotes and weather services (modules/*/services.py), their use cases    *)
(* and the quotes HTTP handlers.  Every operation issues one upstream HTTP *)
(* request, decodes the JSON body and reshapes it into the service's own   *)
(* records; every failure inside the try block is mapped by the except     *)
(* clauses of the operation.                                               *)
(*                                                                         *)
(* An upstream answer is either a transport failure or an HTTP status with *)
(* a body.  A body is raw text that response.json() either fails to decode *)
(* (an empty body, a non-JSON body) or decodes to a JSON value.  JSON      *)
(* values are tagged records; a JSON object of a known shape is a record   *)
(* whose fields are optional (Absent: the key is missing).                 *)
(***************************************************************************)
EXTENDS Integers, Sequences, FiniteSets, TLC

VARIABLES
    op,        \* the operation last called
    args,      \* its arguments
    sent,      \* the upstream requests it issued, in order
    response,  \* the upstream's answer to its request
    outcome,   \* what the use case gave its caller: a result, None or an exception
    reply,     \* the HTTP reply of the handler, for an operation called over HTTP
    environ,   \* the process environment: the value of QUOTES_VERIFY_SSL, if set
    quotes_service,   \* the module global _quotes_service: None, or the singleton
    country_service,  \* the module global _country_service, where requests overlap
    weather_service,  \* the module global _weather_service, where requests overlap
    tasks,        \* the requests being served at once: each handler's position
    constructed,  \* per domain, how many times its service class was instantiated
    store,        \* the Redis keys: their value and remaining time to live
    callers,      \* the callers of RedisService.set_url_seen: each one's position
    grants,       \* per URL, the calls that returned True since its key was last absent
    faulted       \* per URL, whether a Redis command on its key has raised since then

\* the state of one call at a time
call_vars == <<op, args, sent, response, outcome, reply>>

\* the state of the requests served at once on one event loop
loop_vars == <<country_service, weather_service, tasks, constructed>>

\* the state of Redis and of the callers of RedisService
redis_vars == <<store, callers, grants, faulted>>

vars == <<op, args, sent, response, outcome, reply, environ, quotes_service,
          country_service, weather_service, tasks, constructed,
          store, callers, grants, faulted>>

-----------------------------------------------------------------------------
(* Bounds of the model.                                                    *)

\* longest idd.suffixes list of an upstream country object
MaxSuffixes == 2
\* longest JSON array of objects in an upstream body
MaxItems == 2

-----------------------------------------------------------------------------
(* Optional values: a missing key of a JSON object, a None of a schema.    *)

Absent == [present |-> FALSE]

Some(v) == [present |-> TRUE, val |-> v]

\* dict.get(key, default) on a key that is present or missing
Get(o, default) == IF o.present THEN o.val ELSE default

Opt(S) == {Absent} \cup {Some(v) : v \in S}

\* a key that is present with a value of the wrong type for the schema field
\* it feeds: a string that is no number where an int is declared, a null
\* where the field is required
Mistyped == [present |-> TRUE, mistyped |-> TRUE]

\* v is such a value; asked of a value of any kind, a number or a text included
IsMistyped(v) == ToString(v) = ToString(Mistyped)

\* pydantic's validation of the keyword arguments of a schema: it fails when
\* one of `fields` of the upstream object holds a value of the wrong type
FailsValidation(data, fields) == \E f \in fields : data[f] = Mistyped

\* all sequences over S of length at most n
SeqsUpTo(S, n) == UNION {[1..k -> S] : k \in 0..n}

-----------------------------------------------------------------------------
(* JSON bodies.                                                            *)

\* a body response.json() cannot decode: zero bytes, or text that is not JSON
NoJson(raw) == [t |-> "nojson", raw |-> raw]

JNull == [t |-> "null"]

JBool(b) == [t |-> "bool", b |-> b]

JNum(n) == [t |-> "num", n |-> n]

JStr(s) == [t |-> "str", s |-> s]

JArr(xs) == [t |-> "arr", items |-> xs]

\* a JSON object; empty says whether it has no key at all
JObj(o, empty) == [t |-> "obj", o |-> o, empty |-> empty]

UndecodableBodies == {NoJson("empty"), NoJson("html")}

ScalarBodies == {JNull, JBool(FALSE), JBool(TRUE), JNum(0), JNum(7), JStr(""), JStr("x")}

\* Python truthiness of a decoded JSON value: `not data`
Falsy(j) ==
    CASE j.t = "null" -> TRUE
      [] j.t = "bool" -> ~j.b
      [] j.t = "num" -> j.n = 0
      [] j.t = "str" -> j.s = ""
      [] j.t = "arr" -> j.items = <<>>
      [] j.t = "obj" -> j.empty

-----------------------------------------------------------------------------
(* Upstream answers (httpx).                                               *)

OkStatuses == {200, 201}

ErrorStatuses == {301, 400, 404, 429, 500, 503}

\* str(e) of an httpx.RequestError: three failures of the connection, and the
\* refusal of a proxy, whose text is the proxy's status line
TransportFailures == {"ConnectTimeout", "ReadTimeout", "ConnectError", "404 Not Found"}

HttpResponse(status, body) == [kind |-> "http", status |-> status, body |-> body]

TransportFailure(err) == [kind |-> "transport", err |-> err]

\* the answers that carry no decodable payload of interest: transport failures
\* and non-2xx statuses (their body is never read)
FailedResponses ==
    {TransportFailure(e) : e \in TransportFailures}
    \cup {HttpResponse(s, NoJson("html")) : s \in ErrorStatuses}

\* response.raise_for_status() raises unless the status is 2xx
IsSuccess(status) == status >= 200 /\ status <= 299

-----------------------------------------------------------------------------
(* What a try block does: it returns a value or raises an exception.       *)

Returned(v) == [kind |-> "return", value |-> v]

Raised(exc, detail) == [kind |-> "raise", exc |-> exc, detail |-> detail]

\* the part every operation shares: the request, raise_for_status(), json().
\* Gives the exception raised, or "decoded" when the body holds a JSON value
Fetch(resp) ==
    IF resp.kind = "transport" THEN Raised("RequestError", resp.err)
    ELSE IF ~IsSuccess(resp.status)
         THEN Raised("HTTPStatusError", "HTTP " \o ToString(resp.status))
    ELSE IF resp.body.t = "nojson" THEN Raised("JSONDecodeError", "Expecting value")
    ELSE [kind |-> "decoded"]

\* a faulty variant of the requests of an operation: a failed request is
\* sent a second time
Requests_RetryOnce(request, resp) ==
    IF resp.kind = "transport" \/ ~IsSuccess(resp.status)
    THEN <<request, request>>
    ELSE <<request>>

\* the requests an operation issues for the answer resp: client.get is awaited
\* once in the try block, in no loop, and no except clause calls it again
Requests(request, resp) == <<request>>

(* The outcome of an operation, as its caller sees it.                     *)

Result(v) == [kind |-> "result", value |-> v]

\* the not-found sentinel: the operation returns None
NotFound == [kind |-> "none"]

ServiceException(msg) == [kind |-> "error", exc |-> "ServiceException", msg |-> msg]

-----------------------------------------------------------------------------
(* Countries: modules/countries/services.py                                *)

CountryBaseUrl == "https://restcountries.com/v3.1"

\* CountryService.timeout, in seconds
CountryTimeout == 10

\* an upstream country object; every key may be missing.  currencies and
\* languages are mappings, kept as the sequence of their (key, value) pairs
\* in the order of the parsed document
EmptyCountry ==
    [name |-> Absent, capital |-> Absent, region |-> Absent, subregion |-> Absent,
     population |-> Absent, area |-> Absent, currencies |-> Absent,
     languages |-> Absent, flag |-> Absent, flags |-> Absent, cca2 |-> Absent,
     cca3 |-> Absent, idd |-> Absent, timezones |-> Absent]

BaseCountry ==
    [name |-> Some([common |-> Some("United States"),
                    official |-> Some("United States of America")]),
     capital |-> Some(<<"Washington, D.C.">>),
     region |-> Some("Americas"),
     subregion |-> Some("North America"),
     population |-> Some(331),
     area |-> Absent,
     currencies |-> Some(<< <<"USD", [name |-> Some("United States dollar"),
                                      symbol |-> Some("$")]>> >>),
     languages |-> Some(<< <<"eng", "English">> >>),
     flag |-> Some("US"),
     flags |-> Some([png |-> Some("https://flagcdn.com/w320/us.png")]),
     cca2 |-> Some("US"),
     cca3 |-> Some("USA"),
     idd |-> Absent,
     timezones |-> Some(<<"UTC-05:00">>)]

IddRoots == {"+1", "+4"}

IddSuffixes == {"201", "202"}

\* the idd member of an upstream country object: missing, or an object whose
\* root and suffixes may each be missing
IddValues ==
    Opt([root : Opt(IddRoots), suffixes : Opt(SeqsUpTo(IddSuffixes, MaxSuffixes))])

\* the currencies member of an upstream country object: missing, the empty
\* mapping, or mappings of one and two entries (the second without name and
\* symbol), in the order of the document
CurrencyMaps ==
    {Absent,
     Some(<<>>),
     Some(<< <<"USD", [name |-> Some("United States dollar"), symbol |-> Some("$")]>> >>),
     Some(<< <<"USD", [name |-> Some("United States dollar"), symbol |-> Some("$")]>>,
             <<"EUR", [name |-> Absent, symbol |-> Absent]>> >>)}

\* the languages member, likewise
LanguageMaps ==
    {Absent, Some(<<>>), Some(<< <<"spa", "Spanish">>, <<"eng", "English">> >>)}

CountryObjs ==
    {EmptyCountry}
    \cup {[BaseCountry EXCEPT !.idd = i, !.cca3 = c] : i \in IddValues, c \in Opt({"USA"})}
    \cup {[BaseCountry EXCEPT !.currencies = cu, !.languages = la] :
             cu \in CurrencyMaps, la \in LanguageMaps}

\* the country objects that fill the tail of an upstream array
ListCountryObjs ==
    {EmptyCountry,
     [BaseCountry EXCEPT !.idd = Some([root |-> Some("+4"), suffixes |-> Some(<<"202">>)])]}

\* a country object whose population is no number
MistypedCountry == [BaseCountry EXCEPT !.population = Mistyped]

\* a country object as a JSON value: {} when no key is there, and an object
\* of unknown keys only is not empty
CountryJson(o) == JObj(o, o = EmptyCountry)

UnknownKeysObject == JObj(EmptyCountry, FALSE)

\* a faulty variant of the calling codes: only `"idd" in data` is tested
CallingCodes_IddOnly(data) ==
    IF data.idd.present
    THEN LET root == Get(data.idd.val.root, "")
             suffixes == Get(data.idd.val.suffixes, <<>>)
         IN Some([i \in 1..Len(suffixes) |-> root \o suffixes[i]])
    ELSE Absent

\* _transform_country_data, lines 60-65: calling codes
CallingCodes(data) ==
    IF data.idd.present /\ data.idd.val.root.present
    THEN LET root == Get(data.idd.val.root, "")
             suffixes == Get(data.idd.val.suffixes, <<>>)
         IN Some([i \in 1..Len(suffixes) |-> root \o suffixes[i]])
    ELSE Absent

\* a faulty variant of the currencies: the mapping is read back to front
Currencies_Reversed(data) ==
    IF data.currencies.present /\ data.currencies.val # <<>>
    THEN LET items == data.currencies.val
             n == Len(items)
         IN Some([i \in 1..n |->
                    [code |-> items[n + 1 - i][1],
                     name |-> Get(items[n + 1 - i][2].name, ""),
                     symbol |-> Get(items[n + 1 - i][2].symbol, "")]])
    ELSE Absent

\* _transform_country_data, lines 40-50: currencies
Currencies(data) ==
    IF data.currencies.present /\ data.currencies.val # <<>>
    THEN LET items == data.currencies.val
         IN Some([i \in 1..Len(items) |->
                    [code |-> items[i][1],
                     name |-> Get(items[i][2].name, ""),
                     symbol |-> Get(items[i][2].symbol, "")]])
    ELSE Absent

\* _transform_country_data, lines 52-58: languages
Languages(data) ==
    IF data.languages.present /\ data.languages.val # <<>>
    THEN LET items == data.languages.val
         IN Some([i \in 1..Len(items) |-> [code |-> items[i][1], name |-> items[i][2]]])
    ELSE Absent

\* _transform_country_data, lines 67-70: flag URL
FlagUrl(data) ==
    IF data.flags.present /\ data.flags.val.png.present
    THEN Some(data.flags.val.png.val)
    ELSE Absent

\* a faulty variant of _transform_country_data: a missing region reads
\* "Unknown" and a missing population is left out
TransformCountry_OtherDefaults(data) ==
    [name |-> Get(Get(data.name, [common |-> Absent, official |-> Absent]).common, ""),
     official_name |->
         Get(Get(data.name, [common |-> Absent, official |-> Absent]).official, ""),
     capital |-> Get(data.capital, <<>>),
     region |-> Get(data.region, "Unknown"),
     subregion |-> data.subregion,
     population |-> Get(data.population, 0 - 1),
     area |-> data.area,
     currencies |-> Currencies(data),
     languages |-> Languages(data),
     flag |-> Get(data.flag, ""),
     flag_url |-> FlagUrl(data),
     cca2 |-> Get(data.cca2, ""),
     cca3 |-> Get(data.cca3, ""),
     calling_codes |-> CallingCodes(data),
     timezones |-> data.timezones]

\* _transform_country_data: an upstream country object to a Country
TransformCountry(data) ==
    [name |-> Get(Get(data.name, [common |-> Absent, official |-> Absent]).common, ""),
     official_name |->
         Get(Get(data.name, [common |-> Absent, official |-> Absent]).official, ""),
     capital |-> Get(data.capital, <<>>),
     region |-> Get(data.region, ""),
     subregion |-> data.subregion,
     population |-> Get(data.population, 0),
     area |-> data.area,
     currencies |-> Currencies(data),
     languages |-> Languages(data),
     flag |-> Get(data.flag, ""),
     flag_url |-> FlagUrl(data),
     cca2 |-> Get(data.cca2, ""),
     cca3 |-> Get(data.cca3, ""),
     calling_codes |-> CallingCodes(data),
     timezones |-> data.timezones]

\* the keys of the upstream object that go to Country(...) as they are
CountryPlainFields ==
    {"capital", "region", "subregion", "population", "area", "flag", "cca2", "cca3",
     "timezones"}

\* _transform_country_data applied to any decoded JSON value: a value that is
\* not an object has no .get (and a number or null no `in`)
TransformValue(j) ==
    IF j.t = "obj"
    THEN (IF FailsValidation(j.o, CountryPlainFields)
          THEN Raised("ValidationError", "validation error for Country")
          ELSE Returned(TransformCountry(j.o)))
    ELSE IF j.t \in {"str", "arr"} THEN Raised("AttributeError", "no attribute 'get'")
    ELSE Raised("TypeError", "argument is not iterable")

\* [self._transform_country_data(country) for country in data]
TransformEach(data) ==
    CASE data.t = "arr" ->
           LET raising == {i \in 1..Len(data.items) :
                              TransformValue(data.items[i]).kind = "raise"}
           IN IF raising = {}
              THEN Returned([i \in 1..Len(data.items) |->
                                TransformValue(data.items[i]).value])
              ELSE TransformValue(data.items[CHOOSE i \in raising :
                                                 \A j \in raising : i <= j])
      \* iterating an object gives its keys, iterating a string its characters
      [] data.t = "obj" ->
           IF data.empty THEN Returned(<<>>)
           ELSE Raised("AttributeError", "no attribute 'get'")
      [] data.t = "str" ->
           IF data.s = "" THEN Returned(<<>>)
           ELSE Raised("AttributeError", "no attribute 'get'")
      [] OTHER -> Raised("TypeError", "object is not iterable")

\* data[0] of get_country_by_name, on a truthy decoded value
FirstOf(data) ==
    CASE data.t = "arr" -> Returned(data.items[1])
      [] data.t = "str" -> Returned(JStr(data.s))
      [] data.t = "obj" -> Raised("KeyError", "0")
      [] OTHER -> Raised("TypeError", "object is not subscriptable")

\* the try block of get_all_countries and of search_countries_by_region
TryCountryList(resp) ==
    IF Fetch(resp).kind = "raise" THEN Fetch(resp) ELSE TransformEach(resp.body)

\* the try block of get_country_by_name (lines 139-152)
TryCountryByName(resp) ==
    IF Fetch(resp).kind = "raise" THEN Fetch(resp)
    ELSE IF Falsy(resp.body) THEN Returned(Absent)
    ELSE IF FirstOf(resp.body).kind = "raise" THEN FirstOf(resp.body)
    ELSE LET t == TransformValue(FirstOf(resp.body).value)
         IN IF t.kind = "raise" THEN t ELSE Returned(Some(t.value))

\* the try block of get_country_by_code (lines 178-189)
TryCountryByCode(resp) ==
    IF Fetch(resp).kind = "raise" THEN Fetch(resp)
    ELSE IF Falsy(resp.body) THEN Returned(Absent)
    ELSE LET t == TransformValue(resp.body)
         IN IF t.kind = "raise" THEN t ELSE Returned(Some(t.value))

\* a faulty variant of the lookups' except clauses: a 404 is not told apart
\* from the other statuses
CountryLookupOutcome_No404(r) ==
    IF r.kind = "return"
    THEN (IF r.value.present THEN Result(r.value.val) ELSE NotFound)
    ELSE IF r.exc = "HTTPStatusError"
         THEN ServiceException("Failed to fetch country: " \o r.detail)
    ELSE IF r.exc = "RequestError"
         THEN ServiceException("Network error fetching country: " \o r.detail)
    ELSE ServiceException("Unexpected error: " \o r.detail)

\* the except clauses of the two lookups (lines 154-164, 191-201); a returned
\* None is the not-found sentinel
CountryLookupOutcome(r) ==
    IF r.kind = "return"
    THEN (IF r.value.present THEN Result(r.value.val) ELSE NotFound)
    ELSE IF r.exc = "HTTPStatusError"
         THEN (IF r.detail = "HTTP 404" THEN NotFound
               ELSE ServiceException("Failed to fetch country: " \o r.detail))
    ELSE IF r.exc = "RequestError"
         THEN ServiceException("Network error fetching country: " \o r.detail)
    ELSE ServiceException("Unexpected error: " \o r.detail)

\* a faulty variant of a list operation's except clauses: a 404 gives the
\* empty list
CountryListOutcome_404Empty(r, what) ==
    IF r.kind = "return" THEN Result(r.value)
    ELSE IF r.exc = "HTTPStatusError"
         THEN (IF r.detail = "HTTP 404" THEN Result(<<>>)
               ELSE ServiceException("Failed to fetch " \o what \o ": " \o r.detail))
    ELSE IF r.exc = "RequestError"
         THEN ServiceException("Network error fetching " \o what \o ": " \o r.detail)
    ELSE ServiceException("Unexpected error: " \o r.detail)

\* the except clauses of a list operation; what names the operation in the
\* message ("countries", "countries by region")
CountryListOutcome(r, what) ==
    IF r.kind = "return" THEN Result(r.value)
    ELSE IF r.exc = "HTTPStatusError"
         THEN ServiceException("Failed to fetch " \o what \o ": " \o r.detail)
    ELSE IF r.exc = "RequestError"
         THEN ServiceException("Network error fetching " \o what \o ": " \o r.detail)
    ELSE ServiceException("Unexpected error: " \o r.detail)

get_country_by_name(resp) == CountryLookupOutcome(TryCountryByName(resp))

get_country_by_code(resp) == CountryLookupOutcome(TryCountryByCode(resp))

get_all_countries(resp) == CountryListOutcome(TryCountryList(resp), "countries")

search_countries_by_region(resp) ==
    CountryListOutcome(TryCountryList(resp), "countries by region")

\* A country code is kept as its characters, in order.
\* str.upper(), character by character, over the characters the model draws
UpperOf(ch) ==
    CASE ch = "u" -> "U"
      [] ch = "s" -> "S"
      [] ch = "a" -> "A"
      [] OTHER -> ch

\* a faulty variant of code.upper(): the code is passed on as typed
upper_AsTyped(code) == code

\* code.upper() of the handler get_country_by_code (line 127)
upper(code) == [i \in 1..Len(code) |-> UpperOf(code[i])]

\* the text of a code: its characters put together, as in f"/alpha/{code}"
RECURSIVE Text(_)
Text(code) == IF code = <<>> THEN "" ELSE code[1] \o Text(Tail(code))

\* the HTTP reply of the handler get_country_by_code (lines 126-152) for the
\* outcome of the use case; code is the path parameter as typed
CountryByCodeReply(out, code) ==
    IF out.kind = "result" THEN [status |-> 200, country |-> out.value]
    ELSE IF out.kind = "none"
         THEN [status |-> 404, error |-> "not_found",
               message |-> "Country with code '" \o Text(code) \o "' not found"]
    ELSE [status |-> 503, error |-> "country_service_error", message |-> out.msg]

\* the HTTP reply of the handler get_country_by_name (lines 77-113); name is
\* the path parameter
CountryByNameReply(out, name) ==
    IF out.kind = "result" THEN [status |-> 200, country |-> out.value]
    ELSE IF out.kind = "none"
         THEN [status |-> 404, error |-> "not_found",
               message |-> "Country '" \o name \o "' not found"]
    ELSE IF out.exc = "ServiceException"
         THEN [status |-> 503, error |-> "country_service_error", message |-> out.msg]
    ELSE [status |-> 500, error |-> "internal_error",
          message |-> "An unexpected error occurred"]

\* the HTTP reply of the handlers get_all_countries (lines 39-64) and
\* get_countries_by_region (lines 175-199)
CountryListReply(out) ==
    IF out.kind = "result"
    THEN [status |-> 200, countries |-> out.value, total |-> Len(out.value)]
    ELSE IF out.exc = "ServiceException"
         THEN [status |-> 503, error |-> "country_service_error", message |-> out.msg]
    ELSE [status |-> 500, error |-> "internal_error",
          message |-> "An unexpected error occurred"]

\* the request a country operation sends
CountryRequest(path, params) ==
    [url |-> CountryBaseUrl \o path, params |-> params,
     timeout |-> CountryTimeout, verify |-> TRUE]

-----------------------------------------------------------------------------
(* Quotes: modules/quotes/services.py, usecase.py, apiv1/handler.py        *)

QuotesBaseUrl == "https://api.quotable.io"

\* QuotesService.timeout, in seconds
QuotesTimeout == 10

\* an upstream quote object; every key may be missing
EmptyQuote ==
    [_id |-> Absent, content |-> Absent, author |-> Absent, authorSlug |-> Absent,
     tags |-> Absent, length |-> Absent, dateAdded |-> Absent, dateModified |-> Absent]

QuoteObjs ==
    [_id : Opt({"abc"}), content : Opt({"x"}), author : Opt({"A"}),
     authorSlug : Opt({"a"}), tags : Opt({<<>>, <<"wisdom", "life">>}),
     length : Opt({1, 7}), dateAdded : Opt({"2021-03-28"}), dateModified : {Absent}]

\* the quote objects that fill the tail of an upstream array
ListQuoteObjs ==
    {EmptyQuote,
     [EmptyQuote EXCEPT !._id = Some("def"), !.content = Some("y z"),
                        !.author = Some("B"), !.length = Some(3),
                        !.dateModified = Some("2023-04-14")]}

\* a quote object whose length is no number
MistypedQuote ==
    [EmptyQuote EXCEPT !._id = Some("bad"), !.content = Some("x"), !.length = Mistyped]

QuoteJson(o) == JObj(o, o = EmptyQuote)

\* a faulty variant of _parse_quote: length is counted from the content
_parse_quote_Recomputed(data) ==
    LET content == Get(data.content, "")
    IN [id |-> Get(data._id, ""),
        content |-> content,
        author |-> Get(data.author, ""),
        author_slug |-> data.authorSlug,
        tags |-> Get(data.tags, <<>>),
        length |-> CASE content = "" -> 0 [] content = "x" -> 1 [] OTHER -> 3,
        date_added |-> data.dateAdded,
        date_modified |-> data.dateModified]

\* _parse_quote: an upstream quote object to a Quote
_parse_quote(data) ==
    [id |-> Get(data._id, ""),
     content |-> Get(data.content, ""),
     author |-> Get(data.author, ""),
     author_slug |-> data.authorSlug,
     tags |-> Get(data.tags, <<>>),
     length |-> Get(data.length, 0),
     date_added |-> data.dateAdded,
     date_modified |-> data.dateModified]

\* _parse_quote applied to any decoded JSON value: only an object has .get
ParseValue(j) ==
    IF j.t = "obj"
    THEN (IF FailsValidation(j.o, DOMAIN j.o)
          THEN Raised("ValidationError", "validation error for Quote")
          ELSE Returned(_parse_quote(j.o)))
    ELSE Raised("AttributeError", "no attribute 'get'")

\* faulty variants of the shape test of get_random_quote: without the branch
\* for a bare object; without the test of the array's length (data[0] of an
\* empty list); with an array of exactly one element only
RandomQuoteShape_ArrayOnly(data) ==
    IF data.t = "arr" /\ Len(data.items) > 0 THEN ParseValue(data.items[1])
    ELSE Raised("ServiceException", "Invalid response format from quotes API")

RandomQuoteShape_NoLenCheck(data) ==
    IF data.t = "arr"
    THEN (IF Len(data.items) > 0 THEN ParseValue(data.items[1])
          ELSE Raised("IndexError", "list index out of range"))
    ELSE IF data.t = "obj" THEN ParseValue(data)
    ELSE Raised("ServiceException", "Invalid response format from quotes API")

RandomQuoteShape_SingleOnly(data) ==
    IF data.t = "arr" /\ Len(data.items) = 1 THEN ParseValue(data.items[1])
    ELSE IF data.t = "obj" THEN ParseValue(data)
    ELSE Raised("ServiceException", "Invalid response format from quotes API")

\* lines 87-93 of get_random_quote: the shape of the decoded body decides
RandomQuoteShape(data) ==
    IF data.t = "arr" /\ Len(data.items) > 0 THEN ParseValue(data.items[1])
    ELSE IF data.t = "obj" THEN ParseValue(data)
    ELSE Raised("ServiceException", "Invalid response format from quotes API")

\* the try block of get_random_quote (lines 73-93)
TryRandomQuote(resp) ==
    IF Fetch(resp).kind = "raise" THEN Fetch(resp) ELSE RandomQuoteShape(resp.body)

\* the try block of get_quote_by_id (lines 117-123)
TryQuoteById(resp) ==
    IF Fetch(resp).kind = "raise" THEN Fetch(resp) ELSE ParseValue(resp.body)

\* [self._parse_quote(quote_data) for quote_data in data.get("results", [])]
ParseEach(items) ==
    IF \E i \in 1..Len(items) : ParseValue(items[i]).kind = "raise"
    THEN ParseValue(items[CHOOSE i \in 1..Len(items) :
                             /\ ParseValue(items[i]).kind = "raise"
                             /\ \A j \in 1..(i - 1) : ParseValue(items[j]).kind = "return"])
    ELSE Returned([i \in 1..Len(items) |-> ParseValue(items[i]).value])

\* a faulty variant of the (quotes, total_count) pair: the upstream totalCount
\* is not read
QuotesPage_TotalIsCount(data) ==
    IF data.t # "obj" THEN Raised("AttributeError", "no attribute 'get'")
    ELSE LET parsed == ParseEach(Get(data.o.results, <<>>))
         IN IF parsed.kind = "raise" THEN parsed
            ELSE Returned([quotes |-> parsed.value, total_count |-> Len(parsed.value)])

\* lines 186-189 of search_quotes and 230-233 of get_quotes_by_author, on the
\* decoded body: the pair (quotes, total_count)
QuotesPage(data) ==
    IF data.t # "obj" THEN Raised("AttributeError", "no attribute 'get'")
    ELSE LET parsed == ParseEach(Get(data.o.results, <<>>))
         IN IF parsed.kind = "raise" THEN parsed
            ELSE LET quotes == parsed.value
                     total_count == IF data.o.totalCount = Mistyped THEN Mistyped
                                    ELSE Get(data.o.totalCount, Len(quotes))
                 IN Returned([quotes |-> quotes, total_count |-> total_count])

\* the try block of search_quotes and of get_quotes_by_author
TryQuotesList(resp) ==
    IF Fetch(resp).kind = "raise" THEN Fetch(resp) ELSE QuotesPage(resp.body)

\* the except clauses of get_random_quote, search_quotes, get_quotes_by_author:
\* `verb` and `what` are the words of the operation's messages.  The
\* ServiceException raised inside the try block is caught by `except Exception`
QuotesOutcome(r, verb, what) ==
    IF r.kind = "return" THEN Result(r.value)
    ELSE IF r.exc = "HTTPStatusError"
         THEN ServiceException("Failed to " \o verb \o " " \o what \o ": " \o r.detail)
    ELSE IF r.exc = "RequestError"
         THEN ServiceException("Network error " \o verb \o "ing " \o what \o ": " \o r.detail)
    ELSE ServiceException("Unexpected error: " \o r.detail)

\* a faulty variant of get_quote_by_id's except clauses: a 404 is not told
\* apart from the other statuses
QuoteByIdOutcome_No404(r, quote_id) ==
    IF r.kind = "return" THEN Result(r.value)
    ELSE IF r.exc = "HTTPStatusError"
         THEN ServiceException("Failed to fetch quote: " \o r.detail)
    ELSE IF r.exc = "RequestError"
         THEN ServiceException("Network error fetching quote: " \o r.detail)
    ELSE ServiceException("Unexpected error: " \o r.detail)

\* the except clauses of get_quote_by_id (lines 125-135)
QuoteByIdOutcome(r, quote_id) ==
    IF r.kind = "return" THEN Result(r.value)
    ELSE IF r.exc = "HTTPStatusError"
         THEN (IF r.detail = "HTTP 404"
               THEN ServiceException("Quote with ID '" \o quote_id \o "' not found")
               ELSE ServiceException("Failed to fetch quote: " \o r.detail))
    ELSE IF r.exc = "RequestError"
         THEN ServiceException("Network error fetching quote: " \o r.detail)
    ELSE ServiceException("Unexpected error: " \o r.detail)

\* QuotesService / QuotesUseCase operations: the use case passes the call on
get_random_quote(resp) == QuotesOutcome(TryRandomQuote(resp), "fetch", "random quote")

get_quote_by_id(quote_id, resp) == QuoteByIdOutcome(TryQuoteById(resp), quote_id)

search_quotes(resp) == QuotesOutcome(TryQuotesList(resp), "search", "quotes")

get_quotes_by_author(resp) ==
    QuotesOutcome(TryQuotesList(resp), "fetch", "quotes by author")

\* a truthy optional argument (`if tags:`) becomes a query parameter
IfTruthy(o, falsy) == IF o.present /\ o.val # falsy THEN o ELSE Absent

\* str.lower(), character by character, over the characters the model draws
LowerOf(ch) ==
    CASE ch = "T" -> "t"
      [] ch = "R" -> "r"
      [] ch = "U" -> "u"
      [] ch = "E" -> "e"
      [] ch = "Y" -> "y"
      [] ch = "S" -> "s"
      [] ch = "N" -> "n"
      [] ch = "F" -> "f"
      [] ch = "O" -> "o"
      [] ch = "D" -> "d"
      [] OTHER -> ch

lower(text) == [i \in 1..Len(text) |-> LowerOf(text[i])]

\* str.lower() of a text held as a string
RECURSIVE LowerText(_)
LowerText(text) ==
    IF Len(text) = 0 THEN ""
    ELSE LowerOf(SubSeq(text, 1, 1)) \o LowerText(SubSeq(text, 2, Len(text)))

\* `needle in text`: the text has the needle as a substring
In(needle, text) ==
    \E i \in 1..(Len(text) - Len(needle) + 1) :
        SubSeq(text, i, i + Len(needle) - 1) = needle

\* a faulty variant of the reading of QUOTES_VERIFY_SSL: without .lower()
VerifySsl_CaseSensitive(env) ==
    Get(env, <<"f", "a", "l", "s", "e">>)
        \in {<<"t", "r", "u", "e">>, <<"1">>, <<"y", "e", "s">>}

\* os.getenv("QUOTES_VERIFY_SSL", "false").lower() in ("true", "1", "yes");
\* env is the variable's value, character by character, or Absent when unset
VerifySsl(env) ==
    lower(Get(env, <<"f", "a", "l", "s", "e">>))
        \in {<<"t", "r", "u", "e">>, <<"1">>, <<"y", "e", "s">>}

\* QuotesService.__init__ (lines 26-36) in the environment env
QuotesService(env) == [timeout |-> QuotesTimeout, verify_ssl |-> VerifySsl(env)]

\* a faulty variant of get_quotes_service: a new QuotesService at every call
get_quotes_service_Fresh == QuotesService(environ)

\* get_quotes_service(): the singleton, constructed by the first call
get_quotes_service ==
    IF quotes_service.present THEN quotes_service.val ELSE QuotesService(environ)

\* the request a quotes operation sends: the client is built with the
\* service's timeout and verify_ssl
QuotesRequest(path, params, service) ==
    [url |-> QuotesBaseUrl \o path, params |-> params,
     timeout |-> service.timeout, verify |-> service.verify_ssl]

\* a faulty variant of the pagination parameters: sent only when truthy, as
\* the filters are, so that skip = 0 is left out
PageParams_Truthy(limit, skip) ==
    [limit |-> IfTruthy(Some(limit), 0), skip |-> IfTruthy(Some(skip), 0)]

\* services.py lines 166-169 and 219-223: limit and skip are query parameters
\* of every request, whatever their value
PageParams(limit, skip) == [limit |-> Some(limit), skip |-> Some(skip)]

\* the query parameters of search_quotes (lines 166-180): a filter is sent
\* when it is truthy
SearchParams(f, limit, skip) ==
    [limit |-> PageParams(limit, skip).limit,
     skip |-> PageParams(limit, skip).skip,
     query |-> IfTruthy(f.query, ""),
     author |-> IfTruthy(f.author, ""),
     tags |-> IfTruthy(f.tags, ""),
     minLength |-> IfTruthy(f.min_length, 0),
     maxLength |-> IfTruthy(f.max_length, 0)]

\* the query parameters of get_quotes_by_author (lines 219-223)
AuthorParams(author_slug, limit, skip) ==
    [limit |-> PageParams(limit, skip).limit,
     skip |-> PageParams(limit, skip).skip,
     author |-> Some(author_slug)]

\* handler.py lines 75-76 and 141-142: Query(20, ...), Query(0, ...)
HandlerLimit == 20

HandlerSkip == 0

\* cli/commands.py lines 102-103 and 157-158: typer.Option(10, "--limit"),
\* typer.Option(0, "--skip")
CliLimit == 10

CliSkip == 0

\* a faulty variant of the page: counted from 0
Page_ZeroBased(skip, limit) == IF limit > 0 THEN skip \div limit ELSE 1

\* handler.py lines 90 and 163: the page of a paginated reply
Page(skip, limit) == IF limit > 0 THEN (skip \div limit) + 1 ELSE 1

\* the last except clause of every handler, `except Exception`: HTTPException
\* 500 with a fixed message
InternalError ==
    [status |-> 500, error |-> "internal_error", message |-> "An unexpected error occurred"]

\* the except clauses of a handler for an exception of the use case:
\* HTTPException 503 with str(e) for a ServiceException, 500 for any other
ErrorReply(out, error) ==
    IF out.exc = "ServiceException"
    THEN [status |-> 503, error |-> error, message |-> out.msg]
    ELSE InternalError

\* the HTTP reply of the two paginated handlers (lines 85-119, 152-192) for
\* the outcome of the use case: QuotesListResponse, whose validation fails
\* inside the try block when total_count is no integer, or HTTPException
QuotesListReply(out, skip, limit) ==
    IF out.kind = "result"
    THEN (IF IsMistyped(out.value.total_count) THEN InternalError
          ELSE [status |-> 200,
                quotes |-> out.value.quotes,
                count |-> Len(out.value.quotes),
                page |-> Page(skip, limit),
                total_count |-> out.value.total_count])
    ELSE ErrorReply(out, "quotes_service_error")

\* the HTTP reply of the handler get_random_quote (lines 45-69)
RandomQuoteReply(out) ==
    IF out.kind = "result" THEN [status |-> 200, quote |-> out.value]
    ELSE ErrorReply(out, "quotes_service_error")

\* a faulty variant of the handler get_quote_by_id: every ServiceException is 503
QuoteByIdReply_Always503(out) ==
    IF out.kind = "result" THEN [status |-> 200, quote |-> out.value]
    ELSE ErrorReply(out, "quotes_service_error")

\* the HTTP reply of the handler get_quote_by_id (lines 204-237): a
\* ServiceException is 404 when "not found" is in str(e).lower()
QuoteByIdReply(out) ==
    IF out.kind = "result" THEN [status |-> 200, quote |-> out.value]
    ELSE IF out.exc = "ServiceException" /\ In("not found", LowerText(out.msg))
         THEN [status |-> 404, error |-> "quote_not_found", message |-> out.msg]
    ELSE ErrorReply(out, "quotes_service_error")

-----------------------------------------------------------------------------
(* Weather: modules/weather/services.py                                    *)

WeatherBaseUrl == "https://api.open-meteo.com/v1/forecast"

\* WeatherService.timeout, in seconds
WeatherTimeout == 10

\* times[:48]: the hourly horizon
HourlyLimit == 48

\* dates[:7]: the daily horizon
DailyLimit == 7

\* the forecast_hours parameter of the request
ForecastHours == 48

\* the forecast_days parameter of the request
ForecastDays == 7

\* longest upstream hourly time list
MaxHourly == 50

\* longest upstream daily time list
MaxDaily == 9

\* the weather_codes table of _get_weather_code_description
weather_codes ==
    [c \in {0, 1, 2, 3, 45, 48, 51, 53, 55, 56, 57, 61, 63, 65, 66, 67, 71, 73, 75,
            77, 80, 81, 82, 85, 86, 95, 96, 99} |->
       CASE c = 0 -> "Clear sky"
         [] c = 1 -> "Mainly clear"
         [] c = 2 -> "Partly cloudy"
         [] c = 3 -> "Overcast"
         [] c = 45 -> "Foggy"
         [] c = 48 -> "Depositing rime fog"
         [] c = 51 -> "Light drizzle"
         [] c = 53 -> "Moderate drizzle"
         [] c = 55 -> "Dense drizzle"
         [] c = 56 -> "Light freezing drizzle"
         [] c = 57 -> "Dense freezing drizzle"
         [] c = 61 -> "Slight rain"
         [] c = 63 -> "Moderate rain"
         [] c = 65 -> "Heavy rain"
         [] c = 66 -> "Light freezing rain"
         [] c = 67 -> "Heavy freezing rain"
         [] c = 71 -> "Slight snow fall"
         [] c = 73 -> "Moderate snow fall"
         [] c = 75 -> "Heavy snow fall"
         [] c = 77 -> "Snow grains"
         [] c = 80 -> "Slight rain showers"
         [] c = 81 -> "Moderate rain showers"
         [] c = 82 -> "Violent rain showers"
         [] c = 85 -> "Slight snow showers"
         [] c = 86 -> "Heavy snow showers"
         [] c = 95 -> "Thunderstorm"
         [] c = 96 -> "Thunderstorm with slight hail"
         [] c = 99 -> "Thunderstorm with heavy hail"]

\* faulty variants of the lookup: a fallback of the empty string; a table that
\* is not closed (five more codes are described)
_get_weather_code_description_EmptyFallback(code) ==
    IF code \in DOMAIN weather_codes THEN weather_codes[code] ELSE ""

_get_weather_code_description_Open(code) ==
    IF code \in DOMAIN weather_codes THEN weather_codes[code]
    ELSE IF code \in 4..8 THEN "Cloudy"
    ELSE "Unknown"

\* weather_codes.get(code, "Unknown")
_get_weather_code_description(code) ==
    IF code \in DOMAIN weather_codes THEN weather_codes[code] ELSE "Unknown"

\* an upstream time string: the instant it names (hours from the start of the
\* forecast), whether it ends in "Z", and whether it is ISO 8601 at all
TimeString(instant, zulu) == [instant |-> instant, zulu |-> zulu, iso |-> TRUE]

NotATime == [instant |-> 0, zulu |-> FALSE, iso |-> FALSE]

\* datetime.fromisoformat(time_str.replace("Z", "+00:00")): a trailing Z gives
\* an aware UTC datetime, no Z a naive one, anything else a ValueError
fromisoformat(time_str) ==
    IF ~time_str.iso THEN Raised("ValueError", "Invalid isoformat string")
    ELSE Returned([instant |-> time_str.instant,
                   tzinfo |-> IF time_str.zulu THEN "UTC" ELSE "naive"])

\* list[i] of Python, i counted from 0
Index(list, i) ==
    IF i < Len(list) THEN Returned(list[i + 1])
    ELSE Raised("IndexError", "list index out of range")

\* the first exception among the results rs, in order, or none
FirstRaise(rs) ==
    LET raising == {k \in 1..Len(rs) : rs[k].kind = "raise"}
    IN IF raising = {} THEN Returned("none")
       ELSE rs[CHOOSE k \in raising : \A j \in raising : k <= j]

\* the keys of the `current` block, all of which go to CurrentWeather(...)
CurrentFields ==
    {"temperature_2m", "relative_humidity_2m", "wind_speed_10m", "wind_direction_10m",
     "weather_code", "surface_pressure", "visibility"}

\* CurrentWeather(...) of lines 107-118 and 223-234 fails validation
CurrentFailsValidation(data) ==
    data.current.present /\ FailsValidation(data.current.val, CurrentFields)

\* lines 107-118 and 223-234: the current snapshot of a decoded body
CurrentWeather(data) ==
    LET current == Get(data.current,
                       [temperature_2m |-> Absent, relative_humidity_2m |-> Absent,
                        wind_speed_10m |-> Absent, wind_direction_10m |-> Absent,
                        weather_code |-> Absent, surface_pressure |-> Absent,
                        visibility |-> Absent])
    IN [temperature |-> Get(current.temperature_2m, 0),
        humidity |-> Get(current.relative_humidity_2m, 0),
        wind_speed |-> Get(current.wind_speed_10m, 0),
        wind_direction |-> Get(current.wind_direction_10m, 0),
        weather_code |-> Get(current.weather_code, 0),
        weather_description |->
            _get_weather_code_description(Get(current.weather_code, 0)),
        pressure |-> current.surface_pressure,
        visibility |-> current.visibility]

\* lines 242-263: the HourlyForecast of index i (from 0) of the hourly block
HourlyEntry(hourly_data, time_str, i) ==
    LET time == fromisoformat(time_str)
        temperature == Index(Get(hourly_data.temperature_2m, <<0>>), i)
        humidity == Index(Get(hourly_data.relative_humidity_2m, <<0>>), i)
        wind_speed == Index(Get(hourly_data.wind_speed_10m, <<0>>), i)
        wind_direction == Index(Get(hourly_data.wind_direction_10m, <<0>>), i)
        weather_code == Index(Get(hourly_data.weather_code, <<0>>), i)
        precipitation == Index(Get(hourly_data.precipitation_probability,
                                   <<Absent>>), i)
        raised == FirstRaise(<<time, temperature, humidity, wind_speed,
                               wind_direction, weather_code, precipitation>>)
    IN IF raised.kind = "raise" THEN raised
       ELSE Returned([time |-> time.value,
                      temperature |-> temperature.value,
                      humidity |-> humidity.value,
                      wind_speed |-> wind_speed.value,
                      wind_direction |-> wind_direction.value,
                      weather_code |-> weather_code.value,
                      weather_description |->
                          _get_weather_code_description(weather_code.value),
                      precipitation_probability |-> precipitation.value])

\* lines 271-291: the DailyForecast of index i (from 0) of the daily block
DailyEntry(daily_data, date_str, i) ==
    LET date == fromisoformat(date_str)
        temperature_max == Index(Get(daily_data.temperature_2m_max, <<0>>), i)
        temperature_min == Index(Get(daily_data.temperature_2m_min, <<0>>), i)
        weather_code == Index(Get(daily_data.weather_code, <<0>>), i)
        precipitation_sum == Index(Get(daily_data.precipitation_sum, <<Absent>>), i)
        wind_speed_max == Index(Get(daily_data.wind_speed_10m_max, <<Absent>>), i)
        raised == FirstRaise(<<date, temperature_max, temperature_min, weather_code,
                               precipitation_sum, wind_speed_max>>)
    IN IF raised.kind = "raise" THEN raised
       ELSE Returned([date |-> date.value,
                      temperature_max |-> temperature_max.value,
                      temperature_min |-> temperature_min.value,
                      weather_code |-> weather_code.value,
                      weather_description |->
                          _get_weather_code_description(weather_code.value),
                      precipitation_sum |-> precipitation_sum.value,
                      wind_speed_max |-> wind_speed_max.value])

\* a faulty variant of the horizon: the whole list
Prefix_Unbounded(list, limit) == list

\* times[:limit]
Prefix(list, limit) == SubSeq(list, 1, IF Len(list) < limit THEN Len(list) ELSE limit)

\* a faulty variant of the hourly forecast: an empty list, where the code has
\* None, when the forecast is not asked for or not in the body
HourlyForecast_EmptyList(data, hourly) ==
    IF hourly /\ data.hourly.present
    THEN LET hourly_data == data.hourly.val
             times == Prefix(Get(hourly_data.time, <<>>), HourlyLimit)
             entries == [k \in 1..Len(times) |-> HourlyEntry(hourly_data, times[k], k - 1)]
         IN IF FirstRaise(entries).kind = "raise" THEN FirstRaise(entries)
            ELSE Returned(Some([k \in 1..Len(times) |-> entries[k].value]))
    ELSE Returned(Some(<<>>))

\* lines 236-263: the hourly forecast, None unless asked for and in the body
HourlyForecast(data, hourly) ==
    IF hourly /\ data.hourly.present
    THEN LET hourly_data == data.hourly.val
             times == Prefix(Get(hourly_data.time, <<>>), HourlyLimit)
             entries == [k \in 1..Len(times) |-> HourlyEntry(hourly_data, times[k], k - 1)]
         IN IF FirstRaise(entries).kind = "raise" THEN FirstRaise(entries)
            ELSE Returned(Some([k \in 1..Len(times) |-> entries[k].value]))
    ELSE Returned(Absent)

\* lines 265-291: the daily forecast, None unless asked for and in the body
DailyForecast(data, daily) ==
    IF daily /\ data.daily.present
    THEN LET daily_data == data.daily.val
             dates == Prefix(Get(daily_data.time, <<>>), DailyLimit)
             entries == [k \in 1..Len(dates) |-> DailyEntry(daily_data, dates[k], k - 1)]
         IN IF FirstRaise(entries).kind = "raise" THEN FirstRaise(entries)
            ELSE Returned(Some([k \in 1..Len(dates) |-> entries[k].value]))
    ELSE Returned(Absent)

\* f"{latitude},{longitude}"
LocationName(latitude, longitude) == ToString(latitude) \o "," \o ToString(longitude)

\* the try block of get_current_weather (lines 82-126)
TryCurrentWeather(latitude, longitude, timezone, resp) ==
    IF Fetch(resp).kind = "raise" THEN Fetch(resp)
    ELSE IF resp.body.t # "obj" THEN Raised("AttributeError", "no attribute 'get'")
    ELSE IF CurrentFailsValidation(resp.body.o)
         THEN Raised("ValidationError", "validation error for CurrentWeather")
    ELSE Returned([current |-> CurrentWeather(resp.body.o),
                   location_name |-> LocationName(latitude, longitude),
                   timezone |-> IF resp.body.o.timezone = Mistyped THEN Mistyped
                                ELSE Get(resp.body.o.timezone, timezone),
                   latitude |-> latitude,
                   longitude |-> longitude])

\* the try block of get_weather_with_forecast (lines 169-301)
TryWeatherWithForecast(latitude, longitude, timezone, hourly, daily, resp) ==
    IF Fetch(resp).kind = "raise" THEN Fetch(resp)
    ELSE IF resp.body.t # "obj" THEN Raised("AttributeError", "no attribute 'get'")
    ELSE IF CurrentFailsValidation(resp.body.o)
         THEN Raised("ValidationError", "validation error for CurrentWeather")
    ELSE LET data == resp.body.o
             hourly_forecast == HourlyForecast(data, hourly)
             daily_forecast == DailyForecast(data, daily)
         IN IF hourly_forecast.kind = "raise" THEN hourly_forecast
            ELSE IF daily_forecast.kind = "raise" THEN daily_forecast
            ELSE Returned([current |-> CurrentWeather(data),
                           hourly |-> hourly_forecast.value,
                           daily |-> daily_forecast.value,
                           location_name |-> LocationName(latitude, longitude),
                           timezone |-> IF data.timezone = Mistyped THEN Mistyped
                                        ELSE Get(data.timezone, timezone),
                           latitude |-> latitude,
                           longitude |-> longitude])

\* a faulty variant of the weather operations' except clauses: without the
\* last clause, `except Exception`
WeatherOutcome_NoCatchAll(r) ==
    IF r.kind = "return" THEN Result(r.value)
    ELSE IF r.exc = "HTTPStatusError"
         THEN ServiceException("Failed to fetch weather data: " \o r.detail)
    ELSE IF r.exc = "RequestError"
         THEN ServiceException("Network error fetching weather data: " \o r.detail)
    ELSE [kind |-> "error", exc |-> r.exc, msg |-> r.detail]

\* the except clauses of both weather operations (lines 128-136, 303-311)
WeatherOutcome(r) ==
    IF r.kind = "return" THEN Result(r.value)
    ELSE IF r.exc = "HTTPStatusError"
         THEN ServiceException("Failed to fetch weather data: " \o r.detail)
    ELSE IF r.exc = "RequestError"
         THEN ServiceException("Network error fetching weather data: " \o r.detail)
    ELSE ServiceException("Unexpected error: " \o r.detail)

get_current_weather(latitude, longitude, timezone, resp) ==
    WeatherOutcome(TryCurrentWeather(latitude, longitude, timezone, resp))

get_weather_with_forecast(latitude, longitude, timezone, hourly, daily, resp) ==
    WeatherOutcome(TryWeatherWithForecast(latitude, longitude, timezone, hourly, daily, resp))

\* the HTTP reply of the handler get_current_weather (handler.py lines 47-82):
\* WeatherResponse, whose validation fails inside the try block when the
\* timezone is no string, or HTTPException
CurrentWeatherReply(out) ==
    IF out.kind = "result"
    THEN (IF IsMistyped(out.value.timezone) THEN InternalError
          ELSE [status |-> 200, location |-> out.value.location_name,
                latitude |-> out.value.latitude, longitude |-> out.value.longitude,
                timezone |-> out.value.timezone, current |-> out.value.current,
                hourly |-> Absent, daily |-> Absent])
    ELSE ErrorReply(out, "weather_service_error")

\* the HTTP reply of the handler get_weather_forecast (handler.py lines 113-156)
ForecastReply(out) ==
    IF out.kind = "result"
    THEN (IF IsMistyped(out.value.timezone) THEN InternalError
          ELSE [status |-> 200, location |-> out.value.location_name,
                latitude |-> out.value.latitude, longitude |-> out.value.longitude,
                timezone |-> out.value.timezone, current |-> out.value.current,
                hourly |-> out.value.hourly, daily |-> out.value.daily])
    ELSE ErrorReply(out, "weather_service_error")

CurrentParams ==
    <<"temperature_2m", "relative_humidity_2m", "wind_speed_10m", "wind_direction_10m",
      "weather_code", "surface_pressure", "visibility">>

HourlyParams ==
    <<"temperature_2m", "relative_humidity_2m", "wind_speed_10m", "wind_direction_10m",
      "weather_code", "precipitation_probability">>

DailyParams ==
    <<"temperature_2m_max", "temperature_2m_min", "weather_code", "precipitation_sum",
      "wind_speed_10m_max">>

\* the request of a weather operation (lines 84-97, 171-213)
WeatherRequest(latitude, longitude, timezone, hourly, daily) ==
    [url |-> WeatherBaseUrl,
     params |-> [latitude |-> latitude, longitude |-> longitude,
                 current |-> CurrentParams, timezone |-> timezone,
                 hourly |-> IF hourly THEN Some(HourlyParams) ELSE Absent,
                 forecast_hours |-> IF hourly THEN Some(ForecastHours) ELSE Absent,
                 daily |-> IF daily THEN Some(DailyParams) ELSE Absent,
                 forecast_days |-> IF daily THEN Some(ForecastDays) ELSE Absent],
     timeout |-> WeatherTimeout, verify |-> TRUE]

-----------------------------------------------------------------------------
(* The upstream answers the model draws from.                              *)

\* the arrays of at most n elements: any first element, a tail from `rest`
ArraysOf(firsts, rest, n) ==
    {<<>>} \cup (IF n = 0 THEN {}
                 ELSE {<<f>> \o t : f \in firsts, t \in SeqsUpTo(rest, n - 1)})

Responses(bodies) ==
    FailedResponses \cup {HttpResponse(s, b) : s \in OkStatuses, b \in bodies}

CountryBodies ==
    UndecodableBodies \cup ScalarBodies \cup {UnknownKeysObject}
    \cup {CountryJson(o) : o \in CountryObjs}
    \cup {CountryJson(MistypedCountry)}
    \cup {JArr(xs) : xs \in ArraysOf({CountryJson(o) : o \in CountryObjs}
                                       \cup {JNum(7), CountryJson(MistypedCountry)},
                                     {CountryJson(o) : o \in ListCountryObjs},
                                     MaxItems)}

QuoteBodies ==
    UndecodableBodies \cup ScalarBodies \cup {JObj(EmptyQuote, FALSE)}
    \cup {QuoteJson(o) : o \in QuoteObjs}
    \cup {QuoteJson(MistypedQuote)}
    \cup {JArr(xs) : xs \in ArraysOf({QuoteJson(o) : o \in QuoteObjs}
                                       \cup {JNum(7), QuoteJson(MistypedQuote)},
                                     {QuoteJson(o) : o \in ListQuoteObjs},
                                     MaxItems)}

\* the {results, totalCount} envelope of a list answer of the quotes upstream
QuoteEnvelopes ==
    [results : Opt(SeqsUpTo({QuoteJson(o) : o \in ListQuoteObjs}
                               \cup {JNum(7), QuoteJson(MistypedQuote)}, MaxItems)),
     totalCount : Opt({0, 5})]

QuoteListBodies ==
    UndecodableBodies \cup ScalarBodies \cup {JArr(<<>>)}
    \cup {JObj([results |-> Some(<<>>), totalCount |-> Mistyped], FALSE)}
    \cup {JObj(e, e.results = Absent /\ e.totalCount = Absent) : e \in QuoteEnvelopes}

\* the `current` block of a weather body
CurrentObjs ==
    [temperature_2m : Opt({21}) \cup {Mistyped}, relative_humidity_2m : {Some(60)},
     wind_speed_10m : {Some(12)}, wind_direction_10m : {Some(270)},
     weather_code : Opt({0, 3, 4, 100}), surface_pressure : Opt({1013}),
     visibility : {Absent}]

WeatherCodeCycle == <<0, 3, 61, 100>>

\* an hourly block of n time strings.  mode says what the block leaves out:
\* nothing ("full"), the time list, one attribute array, the last entry of
\* every attribute array ("short"), or a last time string that is no time
HourlyBlock(n, mode, zulu, desc) ==
    LET m == IF mode = "short" /\ n > 0 THEN n - 1 ELSE n
        instant(i) == IF desc THEN n - i ELSE i - 1
        column(name, value(_)) ==
            IF mode = name THEN Absent ELSE Some([i \in 1..m |-> value(i)])
        temperature(i) == 10 + instant(i)
        humidity(i) == 60
        speed(i) == instant(i)
        direction(i) == 270
        code(i) == WeatherCodeCycle[(instant(i) % 4) + 1]
        precipitation(i) == Some(instant(i) % 3)
    IN [time |-> IF mode = "no_time" THEN Absent
                 ELSE Some([i \in 1..n |-> IF mode = "bad_time" /\ i = n THEN NotATime
                                           ELSE TimeString(instant(i), zulu)]),
        temperature_2m |-> column("no_temperature", temperature),
        relative_humidity_2m |-> column("no_humidity", humidity),
        wind_speed_10m |-> column("no_wind_speed", speed),
        wind_direction_10m |-> column("no_wind_direction", direction),
        weather_code |-> column("no_weather_code", code),
        precipitation_probability |-> column("no_precipitation", precipitation)]

\* a daily block of n date strings, likewise
DailyBlock(n, mode, desc) ==
    LET m == IF mode = "short" /\ n > 0 THEN n - 1 ELSE n
        instant(i) == IF desc THEN n - i ELSE i - 1
        column(name, value(_)) ==
            IF mode = name THEN Absent ELSE Some([i \in 1..m |-> value(i)])
        tmax(i) == 20 + instant(i)
        tmin(i) == instant(i)
        code(i) == WeatherCodeCycle[(instant(i) % 4) + 1]
        precipitation(i) == Some(instant(i) % 3)
        wind(i) == Some(15)
    IN [time |-> IF mode = "no_time" THEN Absent
                 ELSE Some([i \in 1..n |-> IF mode = "bad_time" /\ i = n THEN NotATime
                                           ELSE TimeString(24 * instant(i), FALSE)]),
        temperature_2m_max |-> column("no_temperature", tmax),
        temperature_2m_min |-> column("no_temperature_min", tmin),
        weather_code |-> column("no_weather_code", code),
        precipitation_sum |-> column("no_precipitation", precipitation),
        wind_speed_10m_max |-> column("no_wind_speed", wind)]

BlockModes ==
    {"full", "no_time", "no_temperature", "no_weather_code", "no_precipitation",
     "short", "bad_time"}

\* the lengths of the upstream time lists: around the horizon and beyond it
HourlyLengths == {0, 1, 2, HourlyLimit - 1, HourlyLimit, HourlyLimit + 1, MaxHourly}

DailyLengths == {0, 1, 2, DailyLimit - 1, DailyLimit, DailyLimit + 1, MaxDaily}

HourlyBlocks ==
    {HourlyBlock(n, mode, z, z) : n \in HourlyLengths, mode \in BlockModes, z \in BOOLEAN}

DailyBlocks ==
    {DailyBlock(n, mode, d) : n \in DailyLengths, mode \in BlockModes, d \in BOOLEAN}

FullCurrent ==
    [temperature_2m |-> Some(21), relative_humidity_2m |-> Some(60),
     wind_speed_10m |-> Some(12), wind_direction_10m |-> Some(270),
     weather_code |-> Some(3), surface_pressure |-> Some(1013), visibility |-> Absent]

WeatherObj(current, timezone, hourly, daily) ==
    [current |-> current, timezone |-> timezone, hourly |-> hourly, daily |-> daily]

WeatherJson(o) ==
    JObj(o, ~o.current.present /\ ~o.timezone.present /\ ~o.hourly.present
            /\ ~o.daily.present)

CurrentBodies ==
    UndecodableBodies \cup ScalarBodies \cup {JArr(<<>>)}
    \cup {WeatherJson(WeatherObj(Some(FullCurrent), Mistyped, Absent, Absent))}
    \cup {WeatherJson(WeatherObj(c, tz, Absent, Absent)) :
            c \in Opt(CurrentObjs), tz \in Opt({"Asia/Jakarta"})}

\* forecast bodies: every hourly block with no or one fixed daily block, every
\* daily block with no or one fixed hourly block
ForecastBodies ==
    UndecodableBodies \cup ScalarBodies \cup {JArr(<<>>)}
    \cup {WeatherJson(WeatherObj(c, Some("Asia/Jakarta"), h, d)) :
            c \in {Absent, Some(FullCurrent)},
            h \in Opt(HourlyBlocks),
            d \in {Absent, Some(DailyBlock(MaxDaily, "full", FALSE))}}
    \cup {WeatherJson(WeatherObj(Some(FullCurrent), Absent, h, d)) :
            h \in {Absent, Some(HourlyBlock(MaxHourly, "full", TRUE, FALSE))},
            d \in Opt(DailyBlocks)}
    \cup {WeatherJson(WeatherObj(Some([FullCurrent EXCEPT !.temperature_2m = Mistyped]),
                                  Absent, Some(HourlyBlock(2, "full", TRUE, FALSE)), Absent))}

-----------------------------------------------------------------------------
(* The arguments the model draws from.                                     *)

CountryNames == {"indonesia", "united"}

\* the codes clients type, character by character
CountryCodes ==
    {<<"u", "s">>, <<"U", "s">>, <<"U", "S">>, <<"u", "s", "a">>, <<"U", "S", "A">>}

Regions == {"Asia", "europe"}

FieldLists == {Absent, Some(<<>>), Some(<<"name", "cca3">>)}

QuoteIds == {"abc", "not found"}

AuthorSlugs == {"albert-einstein"}

\* (tags, max_length) of get_random_quote
RandomArgs ==
    {[tags |-> Absent, max_length |-> Absent],
     [tags |-> Some(""), max_length |-> Some(0)],
     [tags |-> Some("wisdom"), max_length |-> Some(100)]}

\* the filters of search_quotes
SearchFilters ==
    {[query |-> Absent, author |-> Absent, tags |-> Absent,
      min_length |-> Absent, max_length |-> Absent],
     [query |-> Some("success"), author |-> Some(""), tags |-> Some("wisdom"),
      min_length |-> Some(0), max_length |-> Some(200)]}

\* largest limit and skip the model draws
MaxLimit == 3

MaxSkip == 5

Limits == 0..MaxLimit

Skips == 0..MaxSkip

Coordinates == {<<0, 0>>, <<-6, 106>>}

Timezones == {"auto", "UTC"}

\* ",".join(fields)
RECURSIVE Join(_)
Join(fields) ==
    IF Len(fields) = 0 THEN ""
    ELSE IF Len(fields) = 1 THEN fields[1]
    ELSE fields[1] \o "," \o Join(Tail(fields))

\* no HTTP reply: no handler has run, or the use case was called by a CLI command
NoReply == [status |-> 0]

-----------------------------------------------------------------------------
(* Requests served at once.  The handlers are coroutines (`async def`) of   *)
(* one event loop: a handler runs without interruption from one await to    *)
(* the next.  Its first stretch constructs the use case, which calls the    *)
(* domain's get_..._service(), builds the request and awaits client.get;    *)
(* its second stretch takes the upstream's answer to the end of the         *)
(* handler.  Between the two, any other handler may run.                    *)

\* CountryService.__init__ (lines 26-29)
CountryService == [timeout |-> CountryTimeout]

\* WeatherService.__init__ (lines 27-30)
WeatherService == [timeout |-> WeatherTimeout]

\* get_country_service(): the singleton, constructed by the first call
get_country_service ==
    IF country_service.present THEN country_service.val ELSE CountryService

\* get_weather_service(): the singleton, constructed by the first call
get_weather_service ==
    IF weather_service.present THEN weather_service.val ELSE WeatherService

\* the instances a call of a getter constructs: one when it returns an object
\* the module global did not hold (`if _service is None: _service = Service()`)
Built(global, service) == IF global.present /\ global.val = service THEN 0 ELSE 1

\* the largest number of requests served at once
MaxTasks == 2

Tasks == 1..MaxTasks

Domains == {"countries", "quotes", "weather"}

\* a handler that is not running
IdleTask == [pc |-> "idle"]

\* a handler suspended in `await client.get(...)`: the operation, its arguments,
\* the service object its use case holds (self.service) and the request sent.
\* instance numbers the objects of a class in the order of their construction
Awaiting(operation, a, domain, instance, service, request) ==
    [pc |-> "awaiting", op |-> operation, args |-> a, domain |-> domain,
     instance |-> instance, service |-> service, sent |-> request]

\* the values of QUOTES_VERIFY_SSL where requests overlap
LoopEnvValues == {Absent, Some(<<"t", "r", "u", "e">>)}

LoopInit ==
    /\ country_service = Absent
    /\ weather_service = Absent
    /\ tasks = [t \in Tasks |-> IdleTask]
    /\ constructed = [d \in Domains |-> 0]


-----------------------------------------------------------------------------
(* Redis: shared/services/redis_service.py.  RedisService.set_url_seen is   *)
(* two Redis commands, EXISTS and then SETEX (SET when ttl is 0); the       *)
(* server runs each command atomically, and the callers are the threads     *)
(* and processes that share the server.  A command may raise (a timeout, a  *)
(* lost connection): exists() and set() catch that and return False.        *)

\* the largest number of callers at once
MaxCallers == 2

Callers == 1..MaxCallers

\* the longest time to live a caller asks for, in ticks of the model's clock
MaxTtl == 2

\* the ttl argument: 0 is falsy (`if ttl:`), the key is then set with no expiry
Ttls == 0..MaxTtl

Urls == {"https://a.example/", "https://b.example/"}

\* line 125: key = f"url_seen:{url}"
KeyOf(url) == "url_seen:" \o url

Keys == {KeyOf(url) : url \in Urls}

\* a caller outside set_url_seen
IdleCaller == [pc |-> "idle"]

RedisInit ==
    /\ store = [k \in Keys |-> Absent]
    /\ callers = [c \in Callers |-> IdleCaller]
    /\ grants = [k \in Keys |-> 0]
    /\ faulted = [k \in Keys |-> FALSE]


-----------------------------------------------------------------------------
(* The operations.  Each is one call of a use case (or of an HTTP handler) *)
(* with the upstream's answer to its one request.  Results are             *)
(* request-scoped: once the caller has the outcome nothing of the call is  *)
(* kept, and the next call starts from the same state as the first.        *)

Init ==
    /\ op = "idle"
    /\ args = <<>>
    /\ sent = <<>>
    /\ response = [kind |-> "none"]
    /\ outcome = [kind |-> "idle"]
    /\ reply = NoReply
    /\ environ = Absent
    /\ quotes_service = Absent
    /\ LoopInit
    /\ RedisInit

\* the handler get_all_countries: GET /countries/all
GetAllCountries ==
    /\ op = "idle"
    /\ \E fields \in FieldLists, resp \in Responses(CountryBodies) :
        /\ op' = "get_all_countries"
        /\ args' = [fields |-> fields]
        /\ sent' = Requests(CountryRequest("/all",
                        [fields |-> IF fields.present /\ fields.val # <<>>
                                    THEN Some(Join(fields.val)) ELSE Absent]), resp)
        /\ response' = resp
        /\ outcome' = get_all_countries(resp)
        /\ reply' = CountryListReply(get_all_countries(resp))
        /\ UNCHANGED <<environ, quotes_service, loop_vars, redis_vars>>

\* the handler get_country_by_name: GET /countries/name/{name}
CountryByNameCall(responses) ==
    /\ op = "idle"
    /\ \E name \in CountryNames, resp \in responses :
        /\ op' = "get_country_by_name"
        /\ args' = [name |-> name]
        /\ sent' = Requests(CountryRequest("/name/" \o name, [fullText |-> Some("false")]), resp)
        /\ response' = resp
        /\ outcome' = get_country_by_name(resp)
        /\ reply' = CountryByNameReply(get_country_by_name(resp), name)
        /\ UNCHANGED <<environ, quotes_service, loop_vars, redis_vars>>

GetCountryByName == CountryByNameCall(Responses(CountryBodies))

\* the handler get_country_by_code: GET /countries/code/{code}.  The use case
\* and the service are called with code.upper()
GetCountryByCode ==
    /\ op = "idle"
    /\ \E code \in CountryCodes, resp \in Responses(CountryBodies) :
        /\ op' = "get_country_by_code"
        /\ args' = [code |-> code]
        /\ sent' = Requests(CountryRequest("/alpha/" \o Text(upper(code)), [fullText |-> Absent]), resp)
        /\ response' = resp
        /\ outcome' = get_country_by_code(resp)
        /\ reply' = CountryByCodeReply(get_country_by_code(resp), code)
        /\ UNCHANGED <<environ, quotes_service, loop_vars, redis_vars>>

\* the handler get_countries_by_region: GET /countries/region/{region}
SearchCountriesByRegion ==
    /\ op = "idle"
    /\ \E region \in Regions, resp \in Responses(CountryBodies) :
        /\ op' = "search_countries_by_region"
        /\ args' = [region |-> region]
        /\ sent' = Requests(CountryRequest("/region/" \o region, [fullText |-> Absent]), resp)
        /\ response' = resp
        /\ outcome' = search_countries_by_region(resp)
        /\ reply' = CountryListReply(search_countries_by_region(resp))
        /\ UNCHANGED <<environ, quotes_service, loop_vars, redis_vars>>

\* the handler get_random_quote: GET /quotes/random
RandomQuoteCall(responses) ==
    /\ op = "idle"
    /\ \E a \in RandomArgs, resp \in responses :
        /\ op' = "get_random_quote"
        /\ args' = a
        /\ sent' = Requests(QuotesRequest("/quotes/random",
                        [tags |-> IfTruthy(a.tags, ""),
                         maxLength |-> IfTruthy(a.max_length, 0)], get_quotes_service), resp)
        /\ response' = resp
        /\ outcome' = get_random_quote(resp)
        /\ reply' = RandomQuoteReply(get_random_quote(resp))
        /\ environ' = environ
        /\ quotes_service' = Some(get_quotes_service)
        /\ UNCHANGED <<loop_vars, redis_vars>>

GetRandomQuote == RandomQuoteCall(Responses(QuoteBodies))

\* the handler get_quote_by_id: GET /quotes/{quote_id}
QuoteByIdCall(responses) ==
    /\ op = "idle"
    /\ \E quote_id \in QuoteIds, resp \in responses :
        /\ op' = "get_quote_by_id"
        /\ args' = [quote_id |-> quote_id]
        /\ sent' = Requests(QuotesRequest("/quotes/" \o quote_id, <<>>, get_quotes_service), resp)
        /\ response' = resp
        /\ outcome' = get_quote_by_id(quote_id, resp)
        /\ reply' = QuoteByIdReply(get_quote_by_id(quote_id, resp))
        /\ environ' = environ
        /\ quotes_service' = Some(get_quotes_service)
        /\ UNCHANGED <<loop_vars, redis_vars>>

GetQuoteById == QuoteByIdCall(Responses(QuoteBodies))

\* the handler search_quotes: GET /quotes/.  An argument the client leaves
\* out takes the default of its Query(...)
SearchQuotesCall(responses) ==
    /\ op = "idle"
    /\ \E f \in SearchFilters, given_limit \in Opt(Limits), given_skip \in Opt(Skips),
       resp \in responses :
        LET limit == Get(given_limit, HandlerLimit)
            skip == Get(given_skip, HandlerSkip)
        IN /\ op' = "search_quotes"
           /\ args' = [filters |-> f, limit |-> limit, skip |-> skip, via |-> "http",
                       given |-> [limit |-> given_limit, skip |-> given_skip]]
           /\ sent' = Requests(QuotesRequest("/quotes",
                                   SearchParams(f, limit, skip), get_quotes_service), resp)
           /\ response' = resp
           /\ outcome' = search_quotes(resp)
           /\ reply' = QuotesListReply(search_quotes(resp), skip, limit)
           /\ environ' = environ
           /\ quotes_service' = Some(get_quotes_service)
           /\ UNCHANGED <<loop_vars, redis_vars>>

SearchQuotes == SearchQuotesCall(Responses(QuoteListBodies))

\* the handler get_quotes_by_author: GET /quotes/author/{author_slug}
QuotesByAuthorCall(responses) ==
    /\ op = "idle"
    /\ \E author_slug \in AuthorSlugs, given_limit \in Opt(Limits),
       given_skip \in Opt(Skips), resp \in responses :
        LET limit == Get(given_limit, HandlerLimit)
            skip == Get(given_skip, HandlerSkip)
        IN /\ op' = "get_quotes_by_author"
           /\ args' = [author_slug |-> author_slug, limit |-> limit, skip |-> skip,
                       via |-> "http",
                       given |-> [limit |-> given_limit, skip |-> given_skip]]
           /\ sent' = Requests(QuotesRequest("/quotes",
                                   AuthorParams(author_slug, limit, skip),
                                   get_quotes_service), resp)
           /\ response' = resp
           /\ outcome' = get_quotes_by_author(resp)
           /\ reply' = QuotesListReply(get_quotes_by_author(resp), skip, limit)
           /\ environ' = environ
           /\ quotes_service' = Some(get_quotes_service)
           /\ UNCHANGED <<loop_vars, redis_vars>>

GetQuotesByAuthor == QuotesByAuthorCall(Responses(QuoteListBodies))

\* a transport failure, a 404 and a 200 with the given body
FewResponses(body) ==
    {TransportFailure("ConnectError"), HttpResponse(404, NoJson("html")),
     HttpResponse(200, body)}

\* the answers the model gives a CLI command
CliResponses ==
    FewResponses(JObj([results |-> Some(<<QuoteJson(EmptyQuote)>>),
                       totalCount |-> Some(5)], FALSE))

\* the CLI command `quotes search` (cli/commands.py lines 95-151).  An option
\* the user leaves out takes the default of its typer.Option(...)
CliQuotesSearch ==
    /\ op = "idle"
    /\ \E f \in SearchFilters, given_limit \in Opt({MaxLimit}),
       given_skip \in Opt({MaxSkip}), resp \in CliResponses :
        LET limit == Get(given_limit, CliLimit)
            skip == Get(given_skip, CliSkip)
        IN /\ op' = "search_quotes"
           /\ args' = [filters |-> f, limit |-> limit, skip |-> skip, via |-> "cli",
                       given |-> [limit |-> given_limit, skip |-> given_skip]]
           /\ sent' = Requests(QuotesRequest("/quotes",
                                   SearchParams(f, limit, skip), get_quotes_service), resp)
           /\ response' = resp
           /\ outcome' = search_quotes(resp)
           /\ reply' = NoReply
           /\ environ' = environ
           /\ quotes_service' = Some(get_quotes_service)
           /\ UNCHANGED <<loop_vars, redis_vars>>

\* the CLI command `quotes author` (cli/commands.py lines 154-199)
CliQuotesAuthor ==
    /\ op = "idle"
    /\ \E author_slug \in AuthorSlugs, given_limit \in Opt({MaxLimit}),
       given_skip \in Opt({MaxSkip}), resp \in CliResponses :
        LET limit == Get(given_limit, CliLimit)
            skip == Get(given_skip, CliSkip)
        IN /\ op' = "get_quotes_by_author"
           /\ args' = [author_slug |-> author_slug, limit |-> limit, skip |-> skip,
                       via |-> "cli",
                       given |-> [limit |-> given_limit, skip |-> given_skip]]
           /\ sent' = Requests(QuotesRequest("/quotes",
                                   AuthorParams(author_slug, limit, skip),
                                   get_quotes_service), resp)
           /\ response' = resp
           /\ outcome' = get_quotes_by_author(resp)
           /\ reply' = NoReply
           /\ environ' = environ
           /\ quotes_service' = Some(get_quotes_service)
           /\ UNCHANGED <<loop_vars, redis_vars>>

\* the handler get_current_weather: GET /weather/current
CurrentWeatherCall(responses) ==
    /\ op = "idle"
    /\ \E at \in Coordinates, timezone \in Timezones, resp \in responses :
        /\ op' = "get_current_weather"
        /\ args' = [latitude |-> at[1], longitude |-> at[2], timezone |-> timezone]
        /\ sent' = Requests(WeatherRequest(at[1], at[2], timezone, FALSE, FALSE), resp)
        /\ response' = resp
        /\ outcome' = get_current_weather(at[1], at[2], timezone, resp)
        /\ reply' = CurrentWeatherReply(get_current_weather(at[1], at[2], timezone, resp))
        /\ UNCHANGED <<environ, quotes_service, loop_vars, redis_vars>>

GetCurrentWeather == CurrentWeatherCall(Responses(CurrentBodies))

\* the handler get_weather_forecast: GET /weather/forecast
GetWeatherWithForecast ==
    /\ op = "idle"
    /\ \E at \in Coordinates, hourly \in BOOLEAN, daily \in BOOLEAN,
       resp \in Responses(ForecastBodies) :
        /\ op' = "get_weather_with_forecast"
        /\ args' = [latitude |-> at[1], longitude |-> at[2], timezone |-> "auto",
                    hourly |-> hourly, daily |-> daily]
        /\ sent' = Requests(WeatherRequest(at[1], at[2], "auto", hourly, daily), resp)
        /\ response' = resp
        /\ outcome' = get_weather_with_forecast(at[1], at[2], "auto", hourly, daily, resp)
        /\ reply' = ForecastReply(
                        get_weather_with_forecast(at[1], at[2], "auto", hourly, daily, resp))
        /\ UNCHANGED <<environ, quotes_service, loop_vars, redis_vars>>

\* the caller takes the outcome; nothing of the call is retained
Return ==
    /\ op # "idle"
    /\ op' = "idle"
    /\ args' = <<>>
    /\ sent' = <<>>
    /\ response' = [kind |-> "none"]
    /\ outcome' = [kind |-> "idle"]
    /\ reply' = NoReply
    /\ UNCHANGED <<environ, quotes_service, loop_vars, redis_vars>>

Next ==
    \/ GetAllCountries
    \/ GetCountryByName
    \/ GetCountryByCode
    \/ SearchCountriesByRegion
    \/ GetRandomQuote
    \/ GetQuoteById
    \/ SearchQuotes
    \/ GetQuotesByAuthor
    \/ CliQuotesSearch
    \/ CliQuotesAuthor
    \/ GetCurrentWeather
    \/ GetWeatherWithForecast
    \/ Return

Spec == Init /\ [][Next]_vars

-----------------------------------------------------------------------------
(* The same operations in a process whose environment may hold              *)
(* QUOTES_VERIFY_SSL and may change between calls, each operation with a    *)
(* few upstream answers only.                                               *)

\* the values of QUOTES_VERIFY_SSL, character by character: unset, spellings
\* of true / 1 / yes, and other texts
EnvValues ==
    {Absent,
     Some(<<"t", "r", "u", "e">>), Some(<<"T", "R", "U", "E">>),
     Some(<<"T", "r", "u", "e">>), Some(<<"1">>),
     Some(<<"y", "e", "s">>), Some(<<"Y", "e", "s">>),
     Some(<<"f", "a", "l", "s", "e">>), Some(<<"0">>), Some(<<>>),
     Some(<<"o", "n">>), Some(<<" ", "1">>)}

TlsInit ==
    /\ op = "idle"
    /\ args = <<>>
    /\ sent = <<>>
    /\ response = [kind |-> "none"]
    /\ outcome = [kind |-> "idle"]
    /\ reply = NoReply
    /\ environ \in EnvValues
    /\ quotes_service = Absent
    /\ LoopInit
    /\ RedisInit

\* the environment changes between two calls
SetEnvironment ==
    /\ op = "idle"
    /\ \E value \in EnvValues \ {environ} : environ' = value
    /\ UNCHANGED <<call_vars, quotes_service, loop_vars, redis_vars>>

TlsGetRandomQuote == RandomQuoteCall(FewResponses(QuoteJson(EmptyQuote)))

TlsGetQuoteById == QuoteByIdCall(FewResponses(QuoteJson(EmptyQuote)))

TlsSearchQuotes == SearchQuotesCall(FewResponses(JArr(<<>>)))

TlsGetQuotesByAuthor == QuotesByAuthorCall(FewResponses(JArr(<<>>)))

TlsGetCountryByName == CountryByNameCall(FewResponses(JArr(<<>>)))

TlsGetCurrentWeather == CurrentWeatherCall(FewResponses(JArr(<<>>)))

TlsNext ==
    \/ SetEnvironment
    \/ TlsGetRandomQuote
    \/ TlsGetQuoteById
    \/ TlsSearchQuotes
    \/ TlsGetQuotesByAuthor
    \/ TlsGetCountryByName
    \/ TlsGetCurrentWeather
    \/ Return

TlsSpec == TlsInit /\ [][TlsNext]_vars

-----------------------------------------------------------------------------
(* Requests served at once: the steps.                                      *)

\* the upstream answers where requests overlap
LoopResponses(operation) ==
    IF operation = "get_all_countries"
    THEN FewResponses(JArr(<<CountryJson(BaseCountry)>>))
    ELSE IF operation = "search_quotes"
    THEN FewResponses(JObj([results |-> Some(<<QuoteJson(EmptyQuote)>>),
                            totalCount |-> Some(5)], FALSE))
    ELSE FewResponses(WeatherJson(WeatherObj(Some(FullCurrent), Absent, Absent, Absent)))

\* the handler get_all_countries up to `await client.get` (handler.py line 37,
\* usecase.py lines 14-16, services.py lines 103-111)
BeginAllCountries(t) ==
    /\ tasks[t].pc = "idle"
    /\ \E fields \in {Absent, Some(<<"name", "cca3">>)} :
        LET service == get_country_service
            instance == constructed["countries"] + Built(country_service, service)
        IN /\ country_service' = Some(service)
           /\ constructed' = [constructed EXCEPT !["countries"] = instance]
           /\ tasks' = [tasks EXCEPT ![t] =
                  Awaiting("get_all_countries", [fields |-> fields], "countries",
                           instance, service,
                           CountryRequest("/all",
                               [fields |-> IF fields.present /\ fields.val # <<>>
                                           THEN Some(Join(fields.val)) ELSE Absent]))]
    /\ UNCHANGED <<call_vars, environ, quotes_service, weather_service, redis_vars>>

\* the handler search_quotes up to `await client.get` (handler.py line 150,
\* usecase.py lines 14-16, services.py lines 164-182)
BeginSearchQuotes(t) ==
    /\ tasks[t].pc = "idle"
    /\ \E f \in SearchFilters, skip \in {0, MaxSkip} :
        LET service == get_quotes_service
            instance == constructed["quotes"] + Built(quotes_service, service)
        IN /\ quotes_service' = Some(service)
           /\ constructed' = [constructed EXCEPT !["quotes"] = instance]
           /\ tasks' = [tasks EXCEPT ![t] =
                  Awaiting("search_quotes",
                           [filters |-> f, limit |-> MaxLimit, skip |-> skip], "quotes",
                           instance, service,
                           QuotesRequest("/quotes",
                               [limit |-> Some(MaxLimit), skip |-> Some(skip),
                                query |-> IfTruthy(f.query, ""),
                                author |-> IfTruthy(f.author, ""),
                                tags |-> IfTruthy(f.tags, ""),
                                minLength |-> IfTruthy(f.min_length, 0),
                                maxLength |-> IfTruthy(f.max_length, 0)], service))]
    /\ UNCHANGED <<call_vars, environ, country_service, weather_service, redis_vars>>

\* the handler get_current_weather up to `await client.get` (handler.py line
\* 45, usecase.py lines 14-16, services.py lines 82-99)
BeginCurrentWeather(t) ==
    /\ tasks[t].pc = "idle"
    /\ \E timezone \in Timezones :
        LET service == get_weather_service
            instance == constructed["weather"] + Built(weather_service, service)
        IN /\ weather_service' = Some(service)
           /\ constructed' = [constructed EXCEPT !["weather"] = instance]
           /\ tasks' = [tasks EXCEPT ![t] =
                  Awaiting("get_current_weather",
                           [latitude |-> 0, longitude |-> 0, timezone |-> timezone],
                           "weather", instance, service,
                           WeatherRequest(0, 0, timezone, FALSE, FALSE))]
    /\ UNCHANGED <<call_vars, environ, quotes_service, country_service, redis_vars>>

\* what the use case gives the handler for the upstream's answer to its request
TaskOutcome(task, resp) ==
    IF task.op = "get_all_countries" THEN get_all_countries(resp)
    ELSE IF task.op = "search_quotes" THEN search_quotes(resp)
    ELSE get_current_weather(task.args.latitude, task.args.longitude,
                             task.args.timezone, resp)

\* a handler that has its outcome
Done(task, resp, out) ==
    [pc |-> "done", op |-> task.op, args |-> task.args, domain |-> task.domain,
     instance |-> task.instance, service |-> task.service, sent |-> task.sent,
     response |-> resp, outcome |-> out]

\* a faulty variant of the second stretch of a handler: the service keeps the
\* last answer it decoded, and a handler that finds one serves it again
Complete_Shared(t) ==
    /\ tasks[t].pc = "awaiting"
    /\ \E resp \in LoopResponses(tasks[t].op) :
        LET kept == {u \in Tasks \ {t} : /\ tasks[u].pc = "done"
                                         /\ tasks[u].op = tasks[t].op}
        IN tasks' = [tasks EXCEPT ![t] =
               Done(tasks[t], resp,
                    IF kept = {} THEN TaskOutcome(tasks[t], resp)
                    ELSE tasks[CHOOSE u \in kept : TRUE].outcome)]
    /\ UNCHANGED <<call_vars, environ, quotes_service, country_service,
                   weather_service, constructed, redis_vars>>

\* the rest of a handler, from the upstream's answer on: the service method
\* returns or raises (its client and response are local to the call)
Complete(t) ==
    /\ tasks[t].pc = "awaiting"
    /\ \E resp \in LoopResponses(tasks[t].op) :
        tasks' = [tasks EXCEPT ![t] = Done(tasks[t], resp, TaskOutcome(tasks[t], resp))]
    /\ UNCHANGED <<call_vars, environ, quotes_service, country_service,
                   weather_service, constructed, redis_vars>>

\* the reply is written; the use case and everything local to the handler go
Finish(t) ==
    /\ tasks[t].pc = "done"
    /\ tasks' = [tasks EXCEPT ![t] = IdleTask]
    /\ UNCHANGED <<call_vars, environ, quotes_service, country_service,
                   weather_service, constructed, redis_vars>>

\* the environment changes while requests are served
ChangeEnvironment ==
    /\ \E value \in LoopEnvValues \ {environ} : environ' = value
    /\ UNCHANGED <<call_vars, quotes_service, loop_vars, redis_vars>>

LoopNext ==
    \/ \E t \in Tasks : BeginAllCountries(t)
    \/ \E t \in Tasks : BeginSearchQuotes(t)
    \/ \E t \in Tasks : BeginCurrentWeather(t)
    \/ \E t \in Tasks : Complete(t)
    \/ \E t \in Tasks : Finish(t)
    \/ ChangeEnvironment

LoopStart ==
    /\ op = "idle"
    /\ args = <<>>
    /\ sent = <<>>
    /\ response = [kind |-> "none"]
    /\ outcome = [kind |-> "idle"]
    /\ reply = NoReply
    /\ environ \in LoopEnvValues
    /\ quotes_service = Absent
    /\ LoopInit
    /\ RedisInit

LoopSpec == LoopStart /\ [][LoopNext]_vars

-----------------------------------------------------------------------------
(* Redis: the steps.                                                       *)

\* a caller inside set_url_seen(url, ttl).  later: when the call began, a call
\* for the same URL had returned True and the key has not expired since
InCall(pc, url, ttl, later) ==
    [pc |-> pc, url |-> url, key |-> KeyOf(url), ttl |-> ttl, later |-> later]

\* a caller that has the return value of set_url_seen
Returns(call, result) ==
    [pc |-> "returned", url |-> call.url, key |-> call.key, ttl |-> call.ttl,
     later |-> call.later, result |-> result]

\* a key as the server keeps it: its value and, unless it has no expiry, the
\* ticks it has left
Entry(value, ttl) == [value |-> value, ttl |-> IF ttl # 0 THEN Some(ttl) ELSE Absent]

\* one more call returned True: none, one, or more than one
OneMore(n) == IF n < 2 THEN n + 1 ELSE 2

\* a caller enters set_url_seen (line 125)
SetUrlSeen(c) ==
    /\ callers[c].pc = "idle"
    /\ \E url \in Urls, ttl \in Ttls :
        callers' = [callers EXCEPT ![c] =
                        InCall("exists", url, ttl, grants[KeyOf(url)] > 0)]
    /\ UNCHANGED <<call_vars, environ, quotes_service, loop_vars, store, grants, faulted>>

\* line 126, `if self.exists(key): return False`, with exists (lines 109-113):
\* bool(self.client.exists(key)), or False when the command raises
Exists(c) ==
    /\ callers[c].pc = "exists"
    /\ \E raises \in BOOLEAN :
        LET key == callers[c].key
            exists == IF raises THEN FALSE ELSE store[key].present
        IN /\ callers' = [callers EXCEPT ![c] =
                  IF exists THEN Returns(callers[c], FALSE)
                  ELSE [callers[c] EXCEPT !.pc = "set"]]
           /\ faulted' = [faulted EXCEPT ![key] = @ \/ raises]
    /\ UNCHANGED <<call_vars, environ, quotes_service, loop_vars, store, grants>>

\* line 128, `return self.set(key, "1", ttl=ttl)`, with set (lines 62-68):
\* what setex / set returns (True), or False when the command raises
Set(c) ==
    /\ callers[c].pc = "set"
    /\ \E raises \in BOOLEAN :
        LET key == callers[c].key
        IN /\ callers' = [callers EXCEPT ![c] = Returns(callers[c], ~raises)]
           /\ store' = IF raises THEN store
                       ELSE [store EXCEPT ![key] = Some(Entry("1", callers[c].ttl))]
           /\ grants' = IF raises THEN grants ELSE [grants EXCEPT ![key] = OneMore(@)]
           /\ faulted' = [faulted EXCEPT ![key] = @ \/ raises]
    /\ UNCHANGED <<call_vars, environ, quotes_service, loop_vars>>

\* the caller takes the return value
Take(c) ==
    /\ callers[c].pc = "returned"
    /\ callers' = [callers EXCEPT ![c] = IdleCaller]
    /\ UNCHANGED <<call_vars, environ, quotes_service, loop_vars, store, grants, faulted>>

\* the keys whose time to live ends with the next tick
Expiring == {k \in Keys : store[k].present /\ store[k].val.ttl = Some(1)}

\* one tick of the server's clock: a key with time left has one tick less, a
\* key with none left is gone
Tick ==
    /\ \E k \in Keys : store[k].present /\ store[k].val.ttl.present
    /\ store' = [k \in Keys |->
                    IF k \in Expiring THEN Absent
                    ELSE IF store[k].present /\ store[k].val.ttl.present
                    THEN Some([store[k].val EXCEPT !.ttl = Some(@.val - 1)])
                    ELSE store[k]]
    /\ grants' = [k \in Keys |-> IF k \in Expiring THEN 0 ELSE grants[k]]
    /\ faulted' = [k \in Keys |-> IF k \in Expiring THEN FALSE ELSE faulted[k]]
    /\ callers' = [c \in Callers |->
                      IF callers[c].pc # "idle" /\ callers[c].key \in Expiring
                      THEN [callers[c] EXCEPT !.later = FALSE]
                      ELSE callers[c]]
    /\ UNCHANGED <<call_vars, environ, quotes_service, loop_vars>>

RedisNext ==
    \/ \E c \in Callers : SetUrlSeen(c)
    \/ \E c \in Callers : Exists(c)
    \/ \E c \in Callers : Set(c)
    \/ \E c \in Callers : Take(c)
    \/ Tick

RedisStart ==
    /\ op = "idle"
    /\ args = <<>>
    /\ sent = <<>>
    /\ response = [kind |-> "none"]
    /\ outcome = [kind |-> "idle"]
    /\ reply = NoReply
    /\ environ = Absent
    /\ quotes_service = Absent
    /\ LoopInit
    /\ RedisInit

RedisSpec == RedisStart /\ [][RedisNext]_vars

-----------------------------------------------------------------------------
(* Properties.                                                             *)

Lookups == {"get_country_by_name", "get_country_by_code"}

\* the upstream answered with an HTTP status (the transport did not fail)
Answered == response.kind = "http"

Answered2xx == Answered /\ IsSuccess(response.status)

\* the outcome is a ServiceException and carries no result
FailsWithServiceException == outcome.kind = "error" /\ outcome.exc = "ServiceException"

\* a decoded body that is an empty JSON value: [], {}, "", null, false or 0
EmptyJsonValue(b) ==
    \/ b.t = "null"
    \/ b.t = "arr" /\ Len(b.items) = 0
    \/ b.t = "obj" /\ b.empty
    \/ b.t = "str" /\ b.s = ""
    \/ b.t = "bool" /\ b.b = FALSE
    \/ b.t = "num" /\ b.n = 0

\* a body of zero bytes
ZeroByteBody(b) == b.t = "nojson" /\ b.raw = "empty"

\* C1, as stated: the two country lookups return the not-found sentinel when
\* the upstream answers 404 or answers 2xx with an empty body (no bytes, or an
\* empty array or object), and every other failure is a ServiceException.
C1_EmptyBodyIsNotFound ==
    op \in Lookups =>
        /\ (Answered /\ response.status = 404) => outcome = NotFound
        /\ (Answered2xx /\ (ZeroByteBody(response.body)
                            \/ (response.body.t # "nojson"
                                /\ EmptyJsonValue(response.body))))
               => outcome = NotFound
        /\ outcome.kind \in {"result", "none", "error"}
        /\ outcome.kind = "error" => outcome.exc = "ServiceException"

\* C1, amended: the two country lookups return the not-found sentinel exactly
\* when the upstream answers 404 or answers 2xx with a body that decodes to an
\* empty JSON value; a 2xx answer whose body is zero bytes (or not JSON) is a
\* ServiceException "Unexpected error: ...", as is every other failure.
C1_LookupNotFound ==
    op \in Lookups =>
        /\ outcome.kind \in {"result", "none", "error"}
        /\ outcome = NotFound <=>
             /\ Answered
             /\ \/ response.status = 404
                \/ /\ IsSuccess(response.status)
                   /\ response.body.t # "nojson"
                   /\ EmptyJsonValue(response.body)
        /\ outcome.kind = "error" => outcome.exc = "ServiceException"
        /\ (Answered2xx /\ response.body.t = "nojson") =>
               outcome = ServiceException("Unexpected error: Expecting value")
        /\ ~Answered => FailsWithServiceException

\* a lookup answered 200 with the empty array gave the sentinel
C1_Witness ==
    /\ op = "get_country_by_name"
    /\ Answered
    /\ response.status = 200
    /\ response.body.t = "arr"
    /\ response.body.items = <<>>
    /\ outcome = NotFound

C3_Non2xxIsServiceException ==
    (/\ op # "idle"
     /\ Answered
     /\ ~IsSuccess(response.status)
     /\ ~(response.status = 404
          /\ op \in {"get_country_by_name", "get_country_by_code", "get_quote_by_id"}))
        => FailsWithServiceException

\* a list operation answered 404 failed with a ServiceException
C3_Witness ==
    /\ op = "search_countries_by_region"
    /\ Answered
    /\ response.status = 404
    /\ outcome = ServiceException("Failed to fetch countries by region: HTTP 404")

\* the Quote that upstream field values give when nothing is recomputed
DefaultQuote ==
    [id |-> "", content |-> "", author |-> "", author_slug |-> Absent, tags |-> <<>>,
     length |-> 0, date_added |-> Absent, date_modified |-> Absent]

RandomAnswered2xx == op = "get_random_quote" /\ Answered2xx

\* a JSON object whose values all have the types the Quote schema declares
ValidQuoteObject(j) == j.t = "obj" /\ ~FailsValidation(j.o, DOMAIN j.o)

\* C4: random-quote normalization treats the one-element array [q] and the
\* bare object q alike: both give the same single Quote (_id "abc", content
\* "x", author "A" gives Quote id "abc", content "x", author "A", tags []).
C4_ArrayAndObjectAlike ==
    RandomAnswered2xx =>
        LET body == response.body
            example == [EmptyQuote EXCEPT !._id = Some("abc"), !.content = Some("x"),
                                          !.author = Some("A")]
            quote == [DefaultQuote EXCEPT !.id = "abc", !.content = "x", !.author = "A"]
        IN /\ (body.t = "arr" /\ Len(body.items) = 1 /\ body.items[1].t = "obj") =>
                  /\ ValidQuoteObject(body.items[1]) => outcome.kind = "result"
                  /\ outcome = get_random_quote(HttpResponse(200, body.items[1]))
           /\ body.t = "obj" =>
                  /\ ValidQuoteObject(body) => outcome.kind = "result"
                  /\ outcome = get_random_quote(HttpResponse(200, JArr(<<body>>)))
           /\ (body = JArr(<<QuoteJson(example)>>) \/ body = QuoteJson(example)) =>
                  outcome = Result(quote)

\* the one-element array of the example object gave the example Quote
C4_Witness ==
    /\ RandomAnswered2xx
    /\ response.body.t = "arr"
    /\ Len(response.body.items) = 1
    /\ response.body.items[1].t = "obj"
    /\ response.body.items[1].o._id = Some("abc")
    /\ outcome.kind = "result"
    /\ outcome.value.id = "abc"
    /\ outcome.value.tags = <<>>

\* C5: random-quote normalization fails with the invalid-shape error, surfaced
\* as a ServiceException, and returns no Quote when the body is an empty array
\* or is neither an array nor an object (string, number, boolean, null).
C5_InvalidShapeFails ==
    (/\ RandomAnswered2xx
     /\ \/ response.body.t \in {"str", "num", "bool", "null"}
        \/ response.body.t = "arr" /\ Len(response.body.items) = 0)
        => /\ FailsWithServiceException
           /\ outcome.msg = "Unexpected error: Invalid response format from quotes API"

C5_Witness ==
    /\ RandomAnswered2xx
    /\ response.body.t = "arr"
    /\ Len(response.body.items) = 0
    /\ FailsWithServiceException

LookupSource ==
    IF op = "get_country_by_name" THEN response.body.items[1].o ELSE response.body.o

\* C7: calling_codes is absent when the upstream object has no idd or its idd
\* has no root; otherwise it is root+suffix for each suffix of idd.suffixes, in
\* order and of the same length, so a root with empty or missing suffixes
\* gives the empty list, which differs from absent.
C7_CallingCodes ==
    (op \in Lookups /\ outcome.kind = "result") =>
        LET idd == LookupSource.idd
            codes == outcome.value.calling_codes
        IN /\ (~idd.present \/ ~idd.val.root.present) => codes = Absent
           /\ (idd.present /\ idd.val.root.present) =>
                  LET suffixes == IF idd.val.suffixes.present
                                  THEN idd.val.suffixes.val ELSE <<>>
                  IN /\ codes.present
                     /\ Len(codes.val) = Len(suffixes)
                     /\ \A i \in 1..Len(suffixes) :
                            codes.val[i] = idd.val.root.val \o suffixes[i]
                     /\ suffixes = <<>> => (codes = Some(<<>>) /\ codes # Absent)
           /\ idd = Some([root |-> Some("+1"), suffixes |-> Some(<<"201", "202">>)])
                  => codes = Some(<<"+1201", "+1202">>)

C7_Witness ==
    /\ op = "get_country_by_code"
    /\ outcome.kind = "result"
    /\ response.body.o.idd = Some([root |-> Some("+1"), suffixes |-> Some(<<"201", "202">>)])
    /\ outcome.value.calling_codes = Some(<<"+1201", "+1202">>)

Paginated == {"search_quotes", "get_quotes_by_author"}

\* C8: the page of a paginated quote reply is skip // limit + 1 for skip >= 0
\* and limit >= 1, and 1 when limit is 0; it is always >= 1.
C8_Page ==
    (op \in Paginated /\ reply.status = 200) =>
        /\ args.limit >= 1 =>
               /\ reply.page = (args.skip \div args.limit) + 1
               /\ (reply.page - 1) * args.limit <= args.skip
               /\ args.skip < reply.page * args.limit
        /\ args.limit = 0 => reply.page = 1
        /\ reply.page >= 1

\* skip 5 with limit 2 is page 3
C8_Witness ==
    /\ op = "search_quotes"
    /\ reply.status = 200
    /\ args.skip = 5
    /\ args.limit = 2
    /\ reply.page = 3

\* C9: in a paginated quote result, count is the number of quotes returned in
\* the call, whatever the limit, and total_count is the upstream totalCount
\* when there is one and count otherwise.
C9_CountAndTotal ==
    (op \in Paginated /\ reply.status = 200) =>
        LET envelope == response.body.o
            returned == IF envelope.results.present THEN Len(envelope.results.val) ELSE 0
        IN /\ reply.count = returned
           /\ reply.count = Len(reply.quotes)
           /\ reply.total_count = IF envelope.totalCount.present
                                  THEN envelope.totalCount.val ELSE reply.count
           /\ outcome.value.total_count = reply.total_count

\* two quotes came back for limit 1, and the upstream total 5 was kept
C9_Witness ==
    /\ op = "get_quotes_by_author"
    /\ reply.status = 200
    /\ args.limit = 1
    /\ reply.count = 2
    /\ reply.total_count = 5

\* C9, second witness case: without an upstream total, total_count is count
C9_WitnessNoTotal ==
    /\ op = "search_quotes"
    /\ reply.status = 200
    /\ ~response.body.o.totalCount.present
    /\ reply.count = 2
    /\ reply.total_count = 2

\* every entry k of a forecast list comes from index k of the upstream block
IsPrefixOf(list, block, limit, column, field, when) ==
    LET times == IF block.time.present THEN block.time.val ELSE <<>>
    IN /\ Len(list) <= limit
       /\ Len(list) <= Len(times)
       /\ Len(list) = limit \/ Len(list) = Len(times)
       /\ \A k \in 1..Len(list) :
              /\ list[k][when].instant = times[k].instant
              /\ column.present => list[k][field] = column.val[k]

\* C10: the returned hourly list has at most 48 entries, the daily list at
\* most 7, and each is the prefix of the upstream time list in upstream
\* order: entry i of the result comes from upstream index i.
C10_ForecastPrefix ==
    (op = "get_weather_with_forecast" /\ outcome.kind = "result") =>
        LET data == response.body.o
            hourly == outcome.value.hourly
            daily == outcome.value.daily
        IN /\ hourly.present =>
                  /\ Len(hourly.val) <= 48
                  /\ IsPrefixOf(hourly.val, data.hourly.val, 48,
                                data.hourly.val.temperature_2m, "temperature", "time")
           /\ daily.present =>
                  /\ Len(daily.val) <= 7
                  /\ IsPrefixOf(daily.val, data.daily.val, 7,
                                data.daily.val.temperature_2m_max, "temperature_max", "date")

\* an upstream hourly list of more than 48 entries, in descending order of
\* time, came back as its first 48
C10_Witness ==
    /\ op = "get_weather_with_forecast"
    /\ outcome.kind = "result"
    /\ outcome.value.hourly.present
    /\ response.body.o.hourly.val.time.present
    /\ Len(response.body.o.hourly.val.time.val) > 48
    /\ Len(outcome.value.hourly.val) = 48
    /\ outcome.value.hourly.val[1].time.instant > outcome.value.hourly.val[2].time.instant

\* an upstream daily list of more than 7 entries came back as its first 7
C10_WitnessDaily ==
    /\ op = "get_weather_with_forecast"
    /\ outcome.kind = "result"
    /\ outcome.value.daily.present
    /\ response.body.o.daily.val.time.present
    /\ Len(response.body.o.daily.val.time.val) > 7
    /\ Len(outcome.value.daily.val) = 7

\* the weather code table of the Glossary, as (code, description) pairs
GlossaryTable ==
    {<<0, "Clear sky">>, <<1, "Mainly clear">>, <<2, "Partly cloudy">>,
     <<3, "Overcast">>, <<45, "Foggy">>, <<48, "Depositing rime fog">>,
     <<51, "Light drizzle">>, <<53, "Moderate drizzle">>, <<55, "Dense drizzle">>,
     <<56, "Light freezing drizzle">>, <<57, "Dense freezing drizzle">>,
     <<61, "Slight rain">>, <<63, "Moderate rain">>, <<65, "Heavy rain">>,
     <<66, "Light freezing rain">>, <<67, "Heavy freezing rain">>,
     <<71, "Slight snow fall">>, <<73, "Moderate snow fall">>,
     <<75, "Heavy snow fall">>, <<77, "Snow grains">>,
     <<80, "Slight rain showers">>, <<81, "Moderate rain showers">>,
     <<82, "Violent rain showers">>, <<85, "Slight snow showers">>,
     <<86, "Heavy snow showers">>, <<95, "Thunderstorm">>,
     <<96, "Thunderstorm with slight hail">>, <<99, "Thunderstorm with heavy hail">>}

GlossaryCodes == {e[1] : e \in GlossaryTable}

\* the description the Glossary gives a code: its table entry, else "Unknown"
GlossaryDescription(code) ==
    IF code \in GlossaryCodes
    THEN (CHOOSE e \in GlossaryTable : e[1] = code)[2]
    ELSE "Unknown"

\* the integers the lookup is tried on: the WMO range and some beyond it
ProbedCodes == (0 - 5)..120

\* the weather records of a returned weather result: the current snapshot and
\* every hourly and daily entry, each as (weather_code, weather_description)
WeatherRecords ==
    LET v == outcome.value
        hourly == IF op = "get_weather_with_forecast" /\ v.hourly.present
                  THEN {<<v.hourly.val[k].weather_code, v.hourly.val[k].weather_description>> :
                           k \in 1..Len(v.hourly.val)}
                  ELSE {}
        daily == IF op = "get_weather_with_forecast" /\ v.daily.present
                 THEN {<<v.daily.val[k].weather_code, v.daily.val[k].weather_description>> :
                          k \in 1..Len(v.daily.val)}
                 ELSE {}
    IN {<<v.current.weather_code, v.current.weather_description>>} \cup hourly \cup daily

WeatherOps == {"get_current_weather", "get_weather_with_forecast"}

\* C11: the weather description is the table lookup of the weather code: for
\* every code of the Glossary table it is that table's exact string, for every
\* other integer the literal "Unknown"; so the weather_description of every
\* returned current, hourly and daily record is the lookup of that record's
\* weather_code and is never empty.
C11_DescriptionIsLookup ==
    /\ \A code \in ProbedCodes :
           /\ _get_weather_code_description(code) = GlossaryDescription(code)
           /\ _get_weather_code_description(code) # ""
    /\ (op \in WeatherOps /\ outcome.kind = "result") =>
           \A r \in WeatherRecords : r[2] = GlossaryDescription(r[1]) /\ r[2] # ""

\* a current snapshot of a code outside the table came back as "Unknown", and
\* an hourly entry of code 61 as "Slight rain"
C11_Witness ==
    /\ op = "get_current_weather"
    /\ outcome.kind = "result"
    /\ response.body.o.current.present
    /\ response.body.o.current.val.weather_code = Some(100)
    /\ outcome.value.current.weather_code = 100
    /\ outcome.value.current.weather_description = "Unknown"

C11_WitnessHourly ==
    /\ op = "get_weather_with_forecast"
    /\ outcome.kind = "result"
    /\ outcome.value.hourly.present
    /\ \E k \in 1..Len(outcome.value.hourly.val) :
           /\ outcome.value.hourly.val[k].weather_code = 61
           /\ outcome.value.hourly.val[k].weather_description = "Slight rain"

\* the codes of 0..99 that the lookup describes
DescribedCodes == {c \in 0..99 : _get_weather_code_description(c) # "Unknown"}

\* C12, as stated: the lookup table is closed and has 33 entries: exactly 33
\* codes of 0..99 map to a description other than "Unknown".
C12_TableHas33Entries == op \in WeatherOps => Cardinality(DescribedCodes) = 33

\* C12, amended: the lookup table is closed and has 28 entries: exactly 28
\* codes of 0..99 map to a description other than "Unknown" (the 28 codes the
\* Glossary lists), and a returned record of any other code reads "Unknown".
C12_TableHas28Entries ==
    /\ Cardinality(DescribedCodes) = 28
    /\ DescribedCodes = GlossaryCodes
    /\ (op \in WeatherOps /\ outcome.kind = "result") =>
           \A r \in WeatherRecords : (r[2] # "Unknown") <=> (r[1] \in GlossaryCodes)

\* a current snapshot of code 4, inside 0..99 and outside the table, came
\* back as "Unknown"
C12_Witness ==
    /\ op = "get_current_weather"
    /\ outcome.kind = "result"
    /\ outcome.value.current.weather_code = 4
    /\ outcome.value.current.weather_description = "Unknown"

\* C13: country lookup by code is case-insensitive: byCode(c) and
\* byCode(uppercase(c)) issue the same upstream request, to alpha/<uppercase
\* c>, and give the same result, because the code is upper-cased before the
\* upstream call ("us", "Us" and "US" all ask for alpha/US).
C13_CodeIsUppercased ==
    op = "get_country_by_code" =>
        LET typed == args.code
            uppercased == upper(typed)
            request(code, url) ==
                <<[url |-> url, params |-> [fullText |-> Absent],
                   timeout |-> 10, verify |-> TRUE]>>
            answer(code) == CountryByCodeReply(get_country_by_code(response), code)
        IN /\ typed \in {<<"u", "s">>, <<"U", "s">>, <<"U", "S">>} =>
                  sent = request(typed, "https://restcountries.com/v3.1/alpha/US")
           /\ typed \in {<<"u", "s", "a">>, <<"U", "S", "A">>} =>
                  sent = request(typed, "https://restcountries.com/v3.1/alpha/USA")
           /\ Len(sent) = 1
           /\ sent[1].url = CountryBaseUrl \o "/alpha/" \o Text(uppercased)
           /\ upper(uppercased) = uppercased
           /\ outcome = get_country_by_code(response)
           /\ reply.status = answer(uppercased).status
           /\ reply.status # 404 => reply = answer(uppercased)
           /\ reply.status = 404 =>
                  reply.message = "Country with code '" \o Text(typed) \o "' not found"

\* the code typed "us" was asked of the upstream as alpha/US and a country
\* came back
C13_Witness ==
    /\ op = "get_country_by_code"
    /\ args.code = <<"u", "s">>
    /\ sent[1].url = "https://restcountries.com/v3.1/alpha/US"
    /\ outcome.kind = "result"
    /\ reply.status = 200

\* the one request of the operation failed: no answer, or a non-2xx answer
RequestFailed == response.kind = "transport" \/ (Answered /\ ~IsSuccess(response.status))

\* C14: no retries: every operation issues exactly one upstream request, and
\* when that request fails (non-2xx, timeout, transport error) the operation
\* ends with its failure outcome without issuing a second request.
C14_NoRetry ==
    op # "idle" =>
        /\ Len(sent) = 1
        /\ RequestFailed =>
               /\ outcome.kind \in {"error", "none"}
               /\ outcome.kind = "none" => (op \in Lookups /\ response.status = 404)

\* a read timeout ended the operation after its one request
C14_Witness ==
    /\ op = "get_current_weather"
    /\ response = TransportFailure("ReadTimeout")
    /\ Len(sent) = 1
    /\ outcome = ServiceException("Network error fetching weather data: ReadTimeout")

\* C15: every operation ends in exactly one of three outcomes: a typed
\* result, the not-found sentinel (country lookups only), or a
\* ServiceException; no other exception type escapes, whatever the upstream
\* does (transport failure, non-JSON or malformed body, wrong field types,
\* mismatched array lengths).
C15_ThreeOutcomes ==
    op # "idle" =>
        /\ outcome.kind \in {"result", "none", "error"}
        /\ outcome.kind = "none" => op \in Lookups
        /\ outcome.kind = "error" => outcome.exc = "ServiceException"

\* hourly attribute arrays shorter than the time list (an IndexError inside
\* the loop) came out as a ServiceException
C15_Witness ==
    /\ op = "get_weather_with_forecast"
    /\ Answered2xx
    /\ response.body.t = "obj"
    /\ response.body.o.hourly.present
    /\ response.body.o.hourly.val.time.present
    /\ response.body.o.hourly.val.temperature_2m.present
    /\ Len(response.body.o.hourly.val.temperature_2m.val)
           < Len(response.body.o.hourly.val.time.val)
    /\ outcome = ServiceException("Unexpected error: list index out of range")

\* a quote whose length is no number (a validation error of the schema) came
\* out as a ServiceException
C15_WitnessMistyped ==
    /\ op = "get_quote_by_id"
    /\ Answered2xx
    /\ response.body = QuoteJson(MistypedQuote)
    /\ outcome = ServiceException("Unexpected error: validation error for Quote")

\* what the try block of the operation did with the upstream's answer
TryBlock ==
    CASE op \in {"get_all_countries", "search_countries_by_region"} ->
           TryCountryList(response)
      [] op = "get_country_by_name" -> TryCountryByName(response)
      [] op = "get_country_by_code" -> TryCountryByCode(response)
      [] op = "get_random_quote" -> TryRandomQuote(response)
      [] op = "get_quote_by_id" -> TryQuoteById(response)
      [] op \in Paginated -> TryQuotesList(response)
      [] op = "get_current_weather" ->
           TryCurrentWeather(args.latitude, args.longitude, args.timezone, response)
      [] op = "get_weather_with_forecast" ->
           TryWeatherWithForecast(args.latitude, args.longitude, args.timezone,
                                  args.hourly, args.daily, response)

\* C16: an error raised inside the upstream client or the normalizer reaches
\* the caller of the use case unchanged, with the same classification and the
\* same message, with no local recovery and no defaulted result; this
\* includes the invalid-shape error raised by random-quote normalization.
C16_RaisedErrorUnchanged ==
    (op # "idle" /\ TryBlock.kind = "raise") =>
        /\ outcome.kind # "result"
        /\ TryBlock.exc = "ServiceException" => outcome = ServiceException(TryBlock.detail)

\* the Quote q holds the fields of the upstream object src as they came
CopiedFrom(q, src) ==
    /\ q.length = (IF src.length.present THEN src.length.val ELSE 0)
    /\ q.tags = (IF src.tags.present THEN src.tags.val ELSE <<>>)
    /\ q.date_added = src.dateAdded
    /\ q.date_modified = src.dateModified
    /\ q.author_slug = src.authorSlug
    /\ q.id = (IF src._id.present THEN src._id.val ELSE "")
    /\ q.content = (IF src.content.present THEN src.content.val ELSE "")
    /\ q.author = (IF src.author.present THEN src.author.val ELSE "")

\* the upstream object a single returned Quote was made from
QuoteSource ==
    IF response.body.t = "arr" THEN response.body.items[1].o ELSE response.body.o

\* C17: quote normalization copies upstream fields without recomputing them:
\* length is the upstream length (0 when the key is missing) whatever the
\* content is, tags keep upstream order (empty list when missing), dateAdded,
\* dateModified and authorSlug pass through verbatim (absent when missing),
\* and missing _id, content, author become the empty string.
C17_QuoteFieldsCopied ==
    /\ (op \in {"get_random_quote", "get_quote_by_id"} /\ outcome.kind = "result") =>
           CopiedFrom(outcome.value, QuoteSource)
    /\ (op \in Paginated /\ outcome.kind = "result") =>
           LET results == IF response.body.o.results.present
                          THEN response.body.o.results.val ELSE <<>>
           IN \A i \in 1..Len(outcome.value.quotes) :
                  CopiedFrom(outcome.value.quotes[i], results[i].o)

\* a quote of content "x" and upstream length 7 kept length 7, and its two
\* tags their order
C17_Witness ==
    /\ op = "get_quote_by_id"
    /\ outcome.kind = "result"
    /\ response.body.o.content = Some("x")
    /\ response.body.o.length = Some(7)
    /\ outcome.value.content = "x"
    /\ outcome.value.length = 7
    /\ outcome.value.tags = <<"wisdom", "life">>

\* every key missing gave the defaults, and a listed quote kept its
\* dateModified
C17_WitnessDefaults ==
    /\ op = "search_quotes"
    /\ outcome.kind = "result"
    /\ Len(outcome.value.quotes) = 2
    /\ outcome.value.quotes[1] = DefaultQuote
    /\ outcome.value.quotes[2].date_modified = Some("2023-04-14")

\* the value of key k of the upstream object src, or d when the key is missing
ValueOr(src, k, d) == IF src[k].present THEN src[k].val ELSE d

\* the Country c has every field that is not optional, with the default of
\* its type where the upstream object src has no such key, and its optional
\* fields are absent when their key is missing
CountryFieldsPresent(c, src) ==
    LET names == IF src.name.present THEN src.name.val
                 ELSE [common |-> Absent, official |-> Absent]
    IN /\ c.name = ValueOr(names, "common", "")
       /\ c.official_name = ValueOr(names, "official", "")
       /\ c.region = ValueOr(src, "region", "")
       /\ c.flag = ValueOr(src, "flag", "")
       /\ c.cca2 = ValueOr(src, "cca2", "")
       /\ c.cca3 = ValueOr(src, "cca3", "")
       /\ c.population = ValueOr(src, "population", 0)
       /\ c.capital = ValueOr(src, "capital", <<>>)
       /\ c.subregion = src.subregion
       /\ c.area = src.area
       /\ c.timezones = src.timezones
       /\ ~src.flags.present => c.flag_url = Absent

\* likewise for the current snapshot w of a weather body
CurrentFieldsPresent(w, body) ==
    LET src == IF body.current.present THEN body.current.val
               ELSE [temperature_2m |-> Absent, relative_humidity_2m |-> Absent,
                     wind_speed_10m |-> Absent, wind_direction_10m |-> Absent,
                     weather_code |-> Absent, surface_pressure |-> Absent,
                     visibility |-> Absent]
    IN /\ w.temperature = ValueOr(src, "temperature_2m", 0)
       /\ w.humidity = ValueOr(src, "relative_humidity_2m", 0)
       /\ w.wind_speed = ValueOr(src, "wind_speed_10m", 0)
       /\ w.wind_direction = ValueOr(src, "wind_direction_10m", 0)
       /\ w.weather_code = ValueOr(src, "weather_code", 0)
       /\ w.pressure = src.surface_pressure
       /\ w.visibility = src.visibility

CountryListOps == {"get_all_countries", "search_countries_by_region"}

\* C18: in Country and current-weather normalization every field that is not
\* declared optional is present whatever keys the upstream omits: missing
\* numbers become 0, missing strings the empty string, a missing capital list
\* the empty list; only optional fields (subregion, area, timezones, pressure,
\* visibility, flag_url) may be absent.
C18_RequiredFieldsDefaulted ==
    /\ (op \in Lookups /\ outcome.kind = "result") =>
           CountryFieldsPresent(outcome.value, LookupSource)
    /\ (op \in CountryListOps /\ outcome.kind = "result" /\ response.body.t = "arr") =>
           \A i \in 1..Len(outcome.value) :
               CountryFieldsPresent(outcome.value[i], response.body.items[i].o)
    /\ (op \in WeatherOps /\ outcome.kind = "result") =>
           CurrentFieldsPresent(outcome.value.current, response.body.o)

\* the upstream array [{}] gave a Country of defaults
C18_Witness ==
    /\ op = "get_country_by_name"
    /\ Answered2xx
    /\ response.body = JArr(<<CountryJson(EmptyCountry)>>)
    /\ outcome.kind = "result"
    /\ outcome.value.name = ""
    /\ outcome.value.population = 0
    /\ outcome.value.capital = <<>>
    /\ outcome.value.subregion = Absent

\* a weather body without a `current` block gave a snapshot of zeros
C18_WitnessWeather ==
    /\ op = "get_current_weather"
    /\ outcome.kind = "result"
    /\ ~response.body.o.current.present
    /\ outcome.value.current.temperature = 0
    /\ outcome.value.current.weather_code = 0
    /\ outcome.value.current.pressure = Absent

\* the currencies and languages of the Country c follow the mappings of the
\* upstream object src entry by entry
MappingsFollowed(c, src) ==
    LET cu == IF src.currencies.present THEN src.currencies.val ELSE <<>>
        la == IF src.languages.present THEN src.languages.val ELSE <<>>
    IN /\ cu = <<>> => c.currencies = Absent
       /\ cu # <<>> =>
              /\ c.currencies.present
              /\ Len(c.currencies.val) = Len(cu)
              /\ \A i \in 1..Len(cu) :
                     /\ c.currencies.val[i].code = cu[i][1]
                     /\ c.currencies.val[i].name =
                            (IF cu[i][2].name.present THEN cu[i][2].name.val ELSE "")
                     /\ c.currencies.val[i].symbol =
                            (IF cu[i][2].symbol.present THEN cu[i][2].symbol.val ELSE "")
       /\ la = <<>> => c.languages = Absent
       /\ la # <<>> =>
              /\ c.languages.present
              /\ Len(c.languages.val) = Len(la)
              /\ \A i \in 1..Len(la) :
                     c.languages.val[i] = [code |-> la[i][1], name |-> la[i][2]]

\* C19: country currencies and languages are produced one output entry per
\* upstream mapping entry, in the mapping's own (insertion) order and not
\* sorted; a currency missing name or symbol gets the empty string; a missing
\* or empty currencies/languages mapping yields an absent field, not an empty
\* list.
C19_MappingsInOrder ==
    /\ (op \in Lookups /\ outcome.kind = "result") =>
           MappingsFollowed(outcome.value, LookupSource)
    /\ (op \in CountryListOps /\ outcome.kind = "result" /\ response.body.t = "arr") =>
           \A i \in 1..Len(outcome.value) :
               MappingsFollowed(outcome.value[i], response.body.items[i].o)

\* the mappings {USD, EUR} and {spa, eng} came out in that order, not sorted,
\* and EUR, which has no name and no symbol, with empty strings
C19_Witness ==
    /\ op = "get_country_by_code"
    /\ outcome.kind = "result"
    /\ outcome.value.currencies =
           Some(<<[code |-> "USD", name |-> "United States dollar", symbol |-> "$"],
                  [code |-> "EUR", name |-> "", symbol |-> ""]>>)
    /\ outcome.value.languages =
           Some(<<[code |-> "spa", name |-> "Spanish"], [code |-> "eng", name |-> "English"]>>)

\* empty mappings gave absent fields
C19_WitnessEmpty ==
    /\ op = "get_country_by_code"
    /\ outcome.kind = "result"
    /\ response.body.o.currencies = Some(<<>>)
    /\ response.body.o.languages = Some(<<>>)
    /\ outcome.value.currencies = Absent
    /\ outcome.value.languages = Absent

QuoteOps == {"get_random_quote", "get_quote_by_id", "search_quotes", "get_quotes_by_author"}

\* the values of QUOTES_VERIFY_SSL that spell true, 1 or yes in any case
AcceptedValues ==
    {Some(<<"t", "r", "u", "e">>), Some(<<"T", "R", "U", "E">>),
     Some(<<"T", "r", "u", "e">>), Some(<<"1">>),
     Some(<<"y", "e", "s">>), Some(<<"Y", "e", "s">>)}

\* C20: TLS verification per domain: every quotes upstream request verifies
\* certificates if and only if QUOTES_VERIFY_SSL, read once when the quotes
\* service is constructed, is one of true / 1 / yes in any case (so it does
\* not verify by default), while every weather and country upstream request
\* verifies certificates.
C20_TlsVerification ==
    [][/\ (~quotes_service.present /\ quotes_service'.present) =>
              (quotes_service'.val.verify_ssl <=> environ \in AcceptedValues)
       /\ quotes_service.present => quotes_service' = quotes_service
       /\ op' \in QuoteOps =>
              /\ quotes_service'.present
              /\ Len(sent') >= 1
              /\ \A i \in 1..Len(sent') :
                     sent'[i].verify = quotes_service'.val.verify_ssl
       /\ (op' # "idle" /\ op' \notin QuoteOps) =>
              /\ Len(sent') >= 1
              /\ \A i \in 1..Len(sent') : sent'[i].verify = TRUE]_vars

\* the service was constructed while the variable read "TRUE" or the like,
\* the variable now reads "false", and the quotes request still verifies
C20_Witness ==
    /\ op = "get_random_quote"
    /\ environ = Some(<<"f", "a", "l", "s", "e">>)
    /\ quotes_service.present
    /\ quotes_service.val.verify_ssl
    /\ sent[1].verify

\* with the variable unset from the start, the quotes request does not
\* verify; a country request does
C20_WitnessDefault ==
    /\ op = "search_quotes"
    /\ environ = Absent
    /\ quotes_service.present
    /\ ~quotes_service.val.verify_ssl
    /\ ~sent[1].verify

C20_WitnessCountry ==
    /\ op = "get_country_by_name"
    /\ quotes_service.present
    /\ ~quotes_service.val.verify_ssl
    /\ sent[1].verify

-----------------------------------------------------------------------------
\* the module global of a domain
Global(domain) ==
    IF domain = "countries" THEN country_service
    ELSE IF domain = "quotes" THEN quotes_service
    ELSE weather_service

\* the tasks inside a handler
Running == {t \in Tasks : tasks[t].pc # "idle"}

\* C21: under any interleaving of the requests served at once, a domain's
\* service class is instantiated at most once, every handler's use case holds
\* that one instance (the first ever constructed, the one in the module global),
\* and the global, once set, keeps its value: timeout and verify_ssl stay as
\* constructed, whatever the environment becomes
C21_SingletonPerDomain ==
    [][/\ \A d \in Domains :
            /\ constructed'[d] <= 1
            /\ Global(d).present => Global(d)' = Global(d)
       /\ \A t \in Tasks :
            tasks'[t].pc # "idle" =>
                /\ tasks'[t].instance = 1
                /\ \A d \in Domains :
                       tasks'[t].domain = d => Global(d)' = Some(tasks'[t].service)
                /\ \A u \in Tasks :
                       (tasks'[u].pc # "idle" /\ tasks'[u].domain = tasks'[t].domain)
                           => tasks'[u].service = tasks'[t].service]_vars

\* two quotes requests are in flight at once, the second begun after the
\* environment changed to a value that would configure the service otherwise
C21_Witness ==
    /\ \A t \in Tasks : tasks[t].pc = "awaiting" /\ tasks[t].domain = "quotes"
    /\ constructed["quotes"] = 1
    /\ quotes_service.present
    /\ quotes_service.val # QuotesService(environ)

\* all three domains have their singleton, each constructed once
C21_WitnessAllDomains ==
    /\ \A d \in Domains : constructed[d] = 1 /\ Global(d).present
    /\ \E t, u \in Tasks : /\ tasks[t].pc = "done" /\ tasks[u].pc = "awaiting"
                           /\ tasks[t].domain = tasks[u].domain

-----------------------------------------------------------------------------
\* what the constructor of a domain's service class gives in this environment
ServiceOf(domain) ==
    IF domain = "countries" THEN CountryService
    ELSE IF domain = "quotes" THEN QuotesService(environ)
    ELSE WeatherService

\* after the step, every finished request has the outcome its operation gives
\* for its own arguments and the answer to its own request, and two finished
\* requests with the same operation, arguments and answer have the same outcome
OutcomesDetermined ==
    /\ \A t \in Tasks :
           tasks'[t].pc = "done" =>
               tasks'[t].outcome = TaskOutcome(tasks'[t], tasks'[t].response)
    /\ \A t, u \in Tasks :
           (/\ tasks'[t].pc = "done" /\ tasks'[u].pc = "done"
            /\ tasks'[t].op = tasks'[u].op
            /\ tasks'[t].args = tasks'[u].args
            /\ tasks'[t].response = tasks'[u].response)
               => tasks'[t].outcome = tasks'[u].outcome

\* a step of one request leaves the other requests as they were
OthersUntouched ==
    \A t, u \in Tasks : (u # t /\ tasks'[t] # tasks[t]) => tasks'[u] = tasks[u]

\* C22 as stated: requests are independent, and no step of a request changes
\* state that another request reads (the module globals)
C22_NoSharedState ==
    [][/\ OutcomesDetermined
       /\ OthersUntouched
       /\ tasks' # tasks => \A d \in Domains : Global(d)' = Global(d)]_vars

\* C22: the outcome of a request is determined by its own arguments and the
\* answer to its own request, alone or interleaved with others; the only
\* state a request writes that another reads is its domain's module global,
\* written once, from None to the instance the class constructs for anyone
C22_IndependentButSingleton ==
    [][/\ OutcomesDetermined
       /\ OthersUntouched
       /\ tasks' # tasks =>
              \A d \in Domains :
                  \/ Global(d)' = Global(d)
                  \/ ~Global(d).present /\ Global(d)' = Some(ServiceOf(d))]_vars

\* two requests for the same search, answered alike, are finished at once and
\* have the same result; the quotes service they share was constructed by an
\* earlier request, in another environment
C22_Witness ==
    /\ \A t \in Tasks : /\ tasks[t].pc = "done"
                        /\ tasks[t].op = "search_quotes"
                        /\ tasks[t].outcome.kind = "result"
    /\ \A t, u \in Tasks : /\ tasks[t].args = tasks[u].args
                           /\ tasks[t].response = tasks[u].response
                           /\ tasks[t].outcome = tasks[u].outcome
    /\ quotes_service.val # QuotesService(environ)

-----------------------------------------------------------------------------
\* an operation was called over HTTP and its handler has replied
OverHttp == op # "idle" /\ reply # NoReply

\* the try block of the handler raised an exception that is no
\* ServiceException: the use case returned, and the response model rejected
\* what it returned
HandlerRaised ==
    /\ outcome.kind = "result"
    /\ \/ op \in Paginated /\ IsMistyped(outcome.value.total_count)
       \/ op \in WeatherOps /\ IsMistyped(outcome.value.timezone)

\* the reply for an exception that is no ServiceException: 500, the fixed
\* message, nothing of the exception
FixedInternalError ==
    /\ reply.status = 500
    /\ reply.error = "internal_error"
    /\ reply.message = "An unexpected error occurred"

C23_WitnessWeather ==
    /\ op = "get_weather_with_forecast"
    /\ FailsWithServiceException
    /\ reply.status = 503
    /\ reply.message = outcome.msg

\* a country lookup finds nothing: 404
C23_WitnessSentinel ==
    /\ op = "get_country_by_name"
    /\ outcome.kind = "none"
    /\ reply.status = 404

\* the response model rejects what the use case returned: 500
C23_WitnessInternal ==
    /\ op = "search_quotes"
    /\ HandlerRaised
    /\ reply = InternalError

\* ---- C24 ----

\* the names of the query parameters the last request carries a value for
ParamsSent == {n \in DOMAIN sent[1].params : sent[1].params[n].present}

\* C24: search and the by-author lookup forward skip and limit to the upstream
\* API unchanged, as the query parameters `skip` and `limit`, for every
\* skip >= 0 and limit >= 1, skip = 0 included; neither is turned into a page
\* number or left out.
C24_SkipAndLimitForwarded ==
    (op \in Paginated /\ args.skip >= 0 /\ args.limit >= 1) =>
        /\ Len(sent) = 1
        /\ {"skip", "limit"} \subseteq ParamsSent
        /\ sent[1].params.skip.val = args.skip
        /\ sent[1].params.limit.val = args.limit
        /\ "page" \notin ParamsSent

\* a search with a limit of at least 1 from the first item on
C24_Witness ==
    /\ op = "search_quotes"
    /\ args.via = "http"
    /\ args.skip = 0
    /\ args.given.skip = Some(0)
    /\ args.limit = MaxLimit
    /\ sent[1].params.skip = Some(0)
    /\ sent[1].params.limit = Some(MaxLimit)

\* a by-author lookup further into the list
C24_WitnessAuthor ==
    /\ op = "get_quotes_by_author"
    /\ args.skip = MaxSkip
    /\ args.limit = 1
    /\ sent[1].params.skip = Some(MaxSkip)
    /\ sent[1].params.limit = Some(1)

\* ---- C25 ----

\* the limit and skip of the contract: the ones given, else 20 and 0
ContractLimit == Get(args.given.limit, 20)

ContractSkip == Get(args.given.skip, 0)

\* C25: search and the by-author lookup have the same contract from the CLI
\* as from the HTTP handler: the use case is called with the limit and skip
\* that were given, and with limit = 20 and skip = 0 when they were not.
C25_SameContractCliAndHttp ==
    op \in Paginated =>
        /\ args.limit = ContractLimit
        /\ args.skip = ContractSkip
        /\ sent[1].params.limit = Some(ContractLimit)
        /\ sent[1].params.skip = Some(ContractSkip)

\* the part of C25 the code keeps: from the HTTP handler always, and from the
\* CLI for whatever was given and for skip
C25_ContractWhereKept ==
    op \in Paginated =>
        /\ args.skip = ContractSkip
        /\ (args.via = "http" \/ args.given.limit.present) => args.limit = ContractLimit
        /\ (args.via = "cli" /\ ~args.given.limit.present) => args.limit = CliLimit

\* `quotes search` run without --limit and without --skip
C25_Witness ==
    /\ op = "search_quotes"
    /\ args.via = "cli"
    /\ args.given = [limit |-> Absent, skip |-> Absent]
    /\ sent[1].params.limit = Some(CliLimit)

\* ---- C26 ----

\* caller c is in a call that began after a call for the same URL had
\* returned True, with the key not expired since
LaterCall(c) == callers[c].pc \in {"exists", "set"} /\ callers[c].later

\* caller c takes a step of its call
StepOf(c) == callers'[c].pc # callers[c].pc

\* C26: once a call of set_url_seen for a URL has returned True, every later
\* call for the same URL before the key expires returns False and leaves the
\* stored key unchanged.
C26_SeenStaysSeen ==
    [][\A c \in Callers :
        (LaterCall(c) /\ StepOf(c)) =>
            /\ store' = store
            /\ callers'[c].pc = "returned" => callers'[c].result = FALSE]_vars

\* the same, while every command for the key has reached the server
C26_SeenStaysSeenWhileConnected ==
    [][\A c \in Callers :
        (LaterCall(c) /\ StepOf(c) /\ ~faulted'[callers[c].key]) =>
            /\ store' = store
            /\ callers'[c].pc = "returned" => callers'[c].result = FALSE]_vars

\* a later call that was answered True
C26_Witness ==
    \E c \in Callers :
        /\ callers[c].pc = "returned"
        /\ callers[c].later
        /\ callers[c].result = TRUE
        /\ store[callers[c].key] = Some(Entry("1", callers[c].ttl))

\* ---- C27 ----

\* the attribute arrays of an hourly and of a daily block
HourlyArrays ==
    {"temperature_2m", "relative_humidity_2m", "wind_speed_10m", "wind_direction_10m",
     "weather_code", "precipitation_probability"}

DailyArrays ==
    {"temperature_2m_max", "temperature_2m_min", "weather_code", "precipitation_sum",
     "wind_speed_10m_max"}

\* block lists n >= 2 well-formed timestamps and every attribute array of
\* `arrays` in full, except that it leaves out the array `name`
OmitsOnly(block, arrays, name) ==
    /\ block.time.present
    /\ Len(block.time.val) >= 2
    /\ \A k \in 1..Len(block.time.val) : block.time.val[k].iso
    /\ ~block[name].present
    /\ \A other \in arrays \ {name} :
           block[other].present /\ Len(block[other].val) = Len(block.time.val)

\* a forecast call answered 200 with a body whose `current` block is sound
ForecastAnswered ==
    /\ op = "get_weather_with_forecast"
    /\ response.kind = "http"
    /\ response.status = 200
    /\ response.body.t = "obj"
    /\ ~CurrentFailsValidation(response.body.o)

\* the hourly block alone is asked for and leaves out one numeric array
HourlyOmits(name) ==
    /\ ForecastAnswered
    /\ args.hourly
    /\ ~args.daily
    /\ response.body.o.hourly.present
    /\ OmitsOnly(response.body.o.hourly.val, HourlyArrays, name)

\* the daily block alone is asked for and leaves out one numeric array
DailyOmits(name) ==
    /\ ForecastAnswered
    /\ args.daily
    /\ ~args.hourly
    /\ response.body.o.daily.present
    /\ OmitsOnly(response.body.o.daily.val, DailyArrays, name)

\* the smaller of two numbers
Least(a, b) == IF a < b THEN a ELSE b

\* C27: when the hourly (daily) block lists n >= 2 timestamps but leaves out a
\* numeric attribute array, get_weather_with_forecast returns min(n, 48)
\* hourly (min(n, 7) daily) entries with that attribute 0 in every entry,
\* rather than failing.
C27_OmittedArrayDefaulted ==
    /\ \A name \in {"temperature_2m", "weather_code"} :
        HourlyOmits(name) =>
            /\ outcome.kind = "result"
            /\ outcome.value.hourly.present
            /\ Len(outcome.value.hourly.val)
                   = Least(Len(response.body.o.hourly.val.time.val), 48)
            /\ \A k \in 1..Len(outcome.value.hourly.val) :
                   /\ name = "temperature_2m" => outcome.value.hourly.val[k].temperature = 0
                   /\ name = "weather_code" => outcome.value.hourly.val[k].weather_code = 0
    /\ \A name \in {"temperature_2m_max", "temperature_2m_min", "weather_code"} :
        DailyOmits(name) =>
            /\ outcome.kind = "result"
            /\ outcome.value.daily.present
            /\ Len(outcome.value.daily.val)
                   = Least(Len(response.body.o.daily.val.time.val), 7)

\* what the code does with such a block: the second entry indexes the
\* one-element default list, and the operation fails
C27_OmittedArrayFails ==
    (\/ \E name \in HourlyArrays : HourlyOmits(name)
     \/ \E name \in DailyArrays : DailyOmits(name)) =>
        outcome = ServiceException("Unexpected error: list index out of range")

\* an hourly block of 49 timestamps without temperature_2m
C27_Witness ==
    /\ HourlyOmits("temperature_2m")
    /\ Len(response.body.o.hourly.val.time.val) = 49
    /\ outcome = ServiceException("Unexpected error: list index out of range")

\* a daily block of two dates without weather_code
C27_WitnessDaily ==
    /\ DailyOmits("weather_code")
    /\ Len(response.body.o.daily.val.time.val) = 2
    /\ outcome.kind = "error"

\* ---- C28 ----

\* the upstream answered the quote-by-id request with status 404
UpstreamSaid404 == response.kind = "http" /\ response.status = 404

\* C28: the quote-by-id endpoint answers 404 exactly when the upstream
\* answered 404, and 503 for every other upstream or transport failure, for
\* every quote id.
C28_NotFoundExactlyOnUpstream404 ==
    op = "get_quote_by_id" =>
        /\ reply.status = 404 <=> UpstreamSaid404
        /\ (outcome.kind = "error" /\ ~UpstreamSaid404) => reply.status = 503

\* what the handler decides by: the text of the ServiceException
C28_NotFoundByMessage ==
    op = "get_quote_by_id" =>
        /\ reply.status = 404 <=>
               (outcome.kind = "error" /\ In("not found", LowerText(outcome.msg)))
        /\ UpstreamSaid404 => reply.status = 404
        /\ outcome.kind = "error" => reply.status \in {404, 503}

\* a transport failure answered 404
C28_Witness ==
    /\ op = "get_quote_by_id"
    /\ response.kind = "transport"
    /\ reply.status = 404
    /\ reply.message = "Network error fetching quote: 404 Not Found"

\* an upstream 404 answered 404, for the id that itself reads "not found"
C28_WitnessUpstream ==
    /\ op = "get_quote_by_id"
    /\ args.quote_id = "not found"
    /\ UpstreamSaid404
    /\ reply.status = 404

\* ---- C29 ----

\* C29: a successful forecast returns an hourly list if and only if
\* include_hourly is true and the upstream body has an hourly block, and
\* otherwise no hourly list at all (None, not an empty list); likewise the
\* daily list with include_daily; the current snapshot is always returned.
C29_ForecastListsWhenAskedAndPresent ==
    (op = "get_weather_with_forecast" /\ outcome.kind = "result") =>
        LET data == response.body.o
        IN /\ outcome.value.hourly.present <=> (args.hourly /\ data.hourly.present)
           /\ outcome.value.daily.present <=> (args.daily /\ data.daily.present)
           /\ ~outcome.value.hourly.present => outcome.value.hourly = Absent
           /\ ~outcome.value.daily.present => outcome.value.daily = Absent
           /\ outcome.value.current = CurrentWeather(data)
           /\ reply.status = 200 =>
                  /\ reply.hourly = outcome.value.hourly
                  /\ reply.daily = outcome.value.daily
                  /\ reply.current = outcome.value.current

\* both blocks in the body, only the hourly one asked for
C29_Witness ==
    /\ op = "get_weather_with_forecast"
    /\ outcome.kind = "result"
    /\ args.hourly
    /\ ~args.daily
    /\ response.body.o.hourly.present
    /\ response.body.o.daily.present
    /\ outcome.value.hourly.present
    /\ Len(outcome.value.hourly.val) = 2
    /\ outcome.value.daily = Absent
    /\ outcome.value.current.temperature = 21

\* both asked for, neither in the body
C29_WitnessNoBlocks ==
    /\ op = "get_weather_with_forecast"
    /\ outcome.kind = "result"
    /\ args.hourly
    /\ args.daily
    /\ ~response.body.o.hourly.present
    /\ ~response.body.o.daily.present
    /\ outcome.value.hourly = Absent
    /\ outcome.value.daily = Absent
    /\ reply.status = 200

\* a block without a time list, asked for: the empty list
C29_WitnessEmptyList ==
    /\ op = "get_weather_with_forecast"
    /\ outcome.kind = "result"
    /\ args.hourly
    /\ response.body.o.hourly.present
    /\ outcome.value.hourly = Some(<<>>)

\* ---- C30 ----

\* C30: when two or more callers invoke set_url_seen for the same URL not yet
\* seen, with any interleaving of their exists and set steps, at most one of
\* them gets True (every command reaching the server).
C30_AtMostOneTrue ==
    \A k \in Keys : ~faulted[k] => grants[k] <= 1

\* two callers hold True for the same URL, and no command has failed
C30_Witness ==
    \E c1, c2 \in Callers :
        /\ c1 # c2
        /\ callers[c1].pc = "returned"
        /\ callers[c2].pc = "returned"
        /\ callers[c1].key = callers[c2].key
        /\ callers[c1].result = TRUE
        /\ callers[c2].result = TRUE
        /\ ~callers[c1].later
        /\ ~callers[c2].later
        /\ ~faulted[callers[c1].key]

====
